---- MODULE Spec2Model ----
(***************************************************************************)
(* ChromaRestore: the local colorizer processImageLocally (its variants    *)
(* in services/restorationService.ts, services/geminiService.ts and the    *)
(* unnamed part_007) and the promise / orchestrator steps around it.       *)
(*                                                                         *)
(* Numbers.  The code computes in IEEE doubles.  The model computes the    *)
(* same formulas exactly, on decimal fixed-point numbers: a number v is    *)
(* the integer v * SCALE, SCALE = 255 * 81 * 10^20, kept as five limbs of  *)
(* base 10^6 (least significant first; the top limb carries the sign).     *)
(* Every product and quotient the pipelines take on the model's inputs is  *)
(* exact at this scale.  The byte store of a Uint8ClampedArray rounds to   *)
(* the nearest integer, ties to even.                                      *)
(***************************************************************************)
EXTENDS Integers, Sequences, FiniteSets, TLC

\* ------------------------------------------------------------------------
\* Exact arithmetic
\* ------------------------------------------------------------------------
\* the limb base, 10^6
B == 1000 * 1000

Norm(x) ==
  LET c1 == x[1] \div B
      t2 == x[2] + c1
      c2 == t2 \div B
      t3 == x[3] + c2
      c3 == t3 \div B
      t4 == x[4] + c3
      c4 == t4 \div B
  IN  <<x[1] % B, t2 % B, t3 % B, t4 % B, x[5] + c4>>

Zero == <<0, 0, 0, 0, 0>>

\* SCALE = 20655 * 10^20 = 2 065500 000000 000000 000000
One == <<0, 0, 0, 65500, 2>>

Add(x, y) == Norm(<<x[1] + y[1], x[2] + y[2], x[3] + y[3], x[4] + y[4], x[5] + y[5]>>)

Sub(x, y) == Norm(<<x[1] - y[1], x[2] - y[2], x[3] - y[3], x[4] - y[4], x[5] - y[5]>>)

\* x * m for an integer m, |m| <= 2000
MulS(x, m) == Norm(<<x[1] * m, x[2] * m, x[3] * m, x[4] * m, x[5] * m>>)

\* floor(x / d) for an integer d, 0 < d <= 2000
DivS(x, d) ==
  LET q5 == x[5] \div d
      t4 == (x[5] % d) * B + x[4]
      q4 == t4 \div d
      t3 == (t4 % d) * B + x[3]
      q3 == t3 \div d
      t2 == (t3 % d) * B + x[2]
      q2 == t2 \div d
      t1 == (t2 % d) * B + x[1]
  IN  <<t1 \div d, q2, q3, q4, q5>>

\* x * (m / d)
Mul(x, m, d) == DivS(MulS(x, m), d)

\* the number m / d
Num(m, d) == Mul(One, m, d)

Sign(x) == IF x[5] < 0 THEN -1 ELSE IF x = Zero THEN 0 ELSE 1

Lt(x, y) == Sign(Sub(x, y)) < 0

Gt(x, y) == Sign(Sub(x, y)) > 0

MathMax(x, y) == IF Lt(x, y) THEN y ELSE x

MathMin(x, y) == IF Lt(y, x) THEN y ELSE x

MathAbs(x) == IF Sign(x) < 0 THEN Sub(Zero, x) ELSE x

\* floor(x) as an integer, for 0 <= x <= 255
Floor(x) == (x[5] * B + x[4]) \div 2065500

\* x rounded to the nearest integer, ties to even, for 0 <= x <= 255
RoundHalfEven(x) ==
  LET f == Floor(x)
      twice == Sub(MulS(x, 2), MulS(One, 2 * f + 1))
  IN  IF Sign(twice) < 0 THEN f
      ELSE IF Sign(twice) > 0 THEN f + 1
      ELSE IF f % 2 = 0 THEN f ELSE f + 1

\* the store data[i] = v of a Uint8ClampedArray: clamp, then round
ToUint8Clamp(v) ==
  IF Sign(v) < 0 THEN 0
  ELSE IF Gt(v, MulS(One, 255)) THEN 255
  ELSE RoundHalfEven(v)

\* F(v), with v evaluated first: one stage of a computation after another
Then(v, F(_)) == CHOOSE r \in {F(u) : u \in {v}} : TRUE

\* the integer n as a number
FromInt(n) == MulS(One, n)

\* 0.299 * r + 0.587 * g + 0.114 * b
Lum601(r, g, b) == Add(Add(Mul(r, 299, 1000), Mul(g, 587, 1000)), Mul(b, 114, 1000))

\* ------------------------------------------------------------------------
\* Rasters: width, height and the interleaved RGBA bytes; data[i] of the
\* code is D(img, i)
\* ------------------------------------------------------------------------
D(img, i) == img.data[i + 1]

InBuffer(img, i) == i >= 0 /\ i < img.width * img.height * 4

Pixels(img) == {<<x, y>> : x \in 0..(img.width - 1), y \in 0..(img.height - 1)}

\* a read outside a typed array yields undefined, and arithmetic on it NaN
NaN == <<>>

\* entropyMap[k] with no default: the value of the map as it is
OrNothing(v, dflt) == v

\* entropyMap[k] || dflt: 0 and NaN are falsy
OrDefault(v, dflt) == IF v = Zero \/ v = NaN THEN dflt ELSE v

\* the three stores data[i], data[i+1], data[i+2] = Math.min(255, Math.max(0, v))
Clamp255(v) == MathMin(FromInt(255), MathMax(Zero, v))

\* ------------------------------------------------------------------------
\* part_007, second processImageLocally (lines 150-291)
\* ------------------------------------------------------------------------
sampleStepP7B(img) == IF img.width > 1200 THEN 2 ELSE 1

\* the structural pass with its loops run to the last row and column
VisitedToEdge(img) ==
  {p \in Pixels(img) :
     /\ p[1] >= 1 /\ p[1] < img.width /\ (p[1] - 1) % sampleStepP7B(img) = 0
     /\ p[2] >= 1 /\ p[2] < img.height /\ (p[2] - 1) % sampleStepP7B(img) = 0}

\* the pixels the structural pass visits
VisitedP7B(img) ==
  {p \in Pixels(img) :
     /\ p[1] >= 1 /\ p[1] < img.width - 1 /\ (p[1] - 1) % sampleStepP7B(img) = 0
     /\ p[2] >= 1 /\ p[2] < img.height - 1 /\ (p[2] - 1) % sampleStepP7B(img) = 0}

\* the indices of data the structural pass reads at (x, y)
EntropyReadsP7B(img, x, y) ==
  LET width == img.width
      idx == (y * width + x) * 4
  IN  {idx, idx + 1, idx + 2,
       ((y - 1) * width + x) * 4, ((y + 1) * width + x) * 4,
       (y * width + (x - 1)) * 4, (y * width + (x + 1)) * 4}

\* entropyMap[y * width + x] after the structural pass
entropyMapP7B(img, x, y) ==
  IF <<x, y>> \notin VisitedP7B(img) THEN Zero
  ELSE IF \E i \in EntropyReadsP7B(img, x, y) : ~InBuffer(img, i) THEN NaN
  ELSE
    LET width == img.width
        idx == (y * width + x) * 4
        lum == Lum601(FromInt(D(img, idx)), FromInt(D(img, idx + 1)), FromInt(D(img, idx + 2)))
        neighbors == DivS(FromInt(D(img, ((y - 1) * width + x) * 4)
                              + D(img, ((y + 1) * width + x) * 4)
                              + D(img, (y * width + (x - 1)) * 4)
                              + D(img, (y * width + (x + 1)) * 4)), 4)
    IN  MathAbs(Sub(lum, neighbors))

\* engine-specific weightings, in hundredths
WeightsP7B(engine) ==
  IF engine = "opencv" THEN <<115, 95, 90>>
  ELSE IF engine = "paddlehub" THEN <<105, 120, 110>>
  ELSE <<100, 100, 100>>

\* the guards of the adaptive pixel mapping, in the order of the chain
GuardShadow(L) == Lt(L, Num(1, 10))

GuardSky(L, yPos, entropy) ==
  Lt(yPos, Num(45, 100)) /\ Lt(entropy, FromInt(15)) /\ Gt(L, Num(4, 10))

GuardFoliage(L, yPos, entropy) ==
  Gt(entropy, FromInt(25)) /\ Lt(L, Num(7, 10)) /\ Gt(yPos, Num(3, 10))

GuardSubject(L, xPos) ==
  Gt(L, Num(25, 100)) /\ Lt(L, Num(85, 100)) /\ Gt(xPos, Num(2, 10)) /\ Lt(xPos, Num(8, 10))

\* the chain with the subject test moved ahead of the sky test
BranchSubjectFirst(L, xPos, yPos, entropy) ==
  IF GuardShadow(L) THEN "shadow"
  ELSE IF GuardSubject(L, xPos) THEN "subject"
  ELSE IF GuardSky(L, yPos, entropy) THEN "sky"
  ELSE IF GuardFoliage(L, yPos, entropy) THEN "foliage"
  ELSE "default"

\* the branch the if / else-if chain takes
BranchP7B(L, xPos, yPos, entropy) ==
  IF GuardShadow(L) THEN "shadow"
  ELSE IF GuardSky(L, yPos, entropy) THEN "sky"
  ELSE IF GuardFoliage(L, yPos, entropy) THEN "foliage"
  ELSE IF GuardSubject(L, xPos) THEN "subject"
  ELSE "default"

\* the sky target of the top row in every row and branch: horizonWeight left out
TargetNoHorizon(branch, L, y, height, w) ==
  <<Mul(Mul(L, 60, 100), w[1], 100), Mul(Mul(L, 80, 100), w[2], 100), Mul(Mul(L, 160, 100), w[3], 100)>>

\* the target <<tR, tG, tB>>; in the sky branch 0.6 + horizonWeight * 0.2 with
\* horizonWeight = yPos / 0.45 = 100 y / (45 height) is (27 height + 20 y) / (45 height)
\* and 0.8 + horizonWeight * 0.1 is (36 height + 10 y) / (45 height)
TargetP7B(branch, L, y, height, w) ==
  IF branch = "shadow" THEN
    <<Mul(Mul(L, 80, 100), w[1], 100), Mul(Mul(L, 85, 100), w[2], 100), Mul(Mul(L, 130, 100), w[3], 100)>>
  ELSE IF branch = "sky" THEN
    <<Mul(Mul(L, 27 * height + 20 * y, 45 * height), w[1], 100),
      Mul(Mul(L, 36 * height + 10 * y, 45 * height), w[2], 100),
      Mul(Mul(L, 160, 100), w[3], 100)>>
  ELSE IF branch = "foliage" THEN
    <<Mul(Mul(L, 90, 100), w[1], 100), Mul(Mul(L, 140, 100), w[2], 100), Mul(Mul(L, 70, 100), w[3], 100)>>
  ELSE IF branch = "subject" THEN
    <<Mul(Mul(L, 135, 100), w[1], 100), Mul(Mul(L, 110, 100), w[2], 100), Mul(Mul(L, 90, 100), w[3], 100)>>
  ELSE
    <<Mul(Mul(L, 105, 100), w[1], 100), Mul(Mul(L, 102, 100), w[2], 100), Mul(Mul(L, 95, 100), w[3], 100)>>

\* if (engine === 'paddlehub') { boost = entropy > 30 ? 1.1 : 1.0; t *= boost }
BoostP7B(t, engine, entropy) ==
  IF engine = "paddlehub" /\ Gt(entropy, FromInt(30))
  THEN <<Mul(t[1], 110, 100), Mul(t[2], 110, 100), Mul(t[3], 110, 100)>>
  ELSE t

\* the blend with the colour left out: f = c / 255
BlendOriginal(c, t, intensity) == DivS(FromInt(c), 255)

\* the blend with its weights exchanged: f = (c / 255) * intensity + t * (1 - intensity)
BlendSwapped(c, t, intensity) ==
  Add(Mul(DivS(FromInt(c), 255), intensity, 100), Mul(t, 100 - intensity, 100))

\* f = (c / 255) * (1 - intensity) + t * intensity
Blend(c, t, intensity) ==
  Add(Mul(DivS(FromInt(c), 255), 100 - intensity, 100), Mul(t, intensity, 100))

\* the offset applied the other way round: fR -= tOffset; fB += tOffset
TemperatureCool(f, temp, per) ==
  LET tOffset == DivS(FromInt(temp), per)
  IN  <<Sub(f[1], tOffset), f[2], Add(f[3], tOffset)>>

\* the offset applied to red alone: fR += tOffset
TemperatureRedOnly(f, temp, per) ==
  <<Add(f[1], DivS(FromInt(temp), per)), f[2], f[3]>>

\* fR += tOffset; fB -= tOffset, tOffset = temp / per
Temperature(f, temp, per) ==
  LET tOffset == DivS(FromInt(temp), per)
  IN  <<Add(f[1], tOffset), f[2], Sub(f[3], tOffset)>>

\* the grading presets with none of them applied
GradingNoSepia(f, grading) == f

\* the grading presets of the second build
GradingP7B(f, grading) ==
  IF grading = "cinematic" THEN
    <<Mul(f[1], 115, 100), Mul(f[2], 95, 100), Mul(f[3], 90, 100)>>
  ELSE IF grading = "vintage" THEN
    <<Add(f[1], Num(5, 100)), Add(f[2], Num(2, 100)), Sub(f[3], Num(3, 100))>>
  ELSE IF grading = "vibrant" THEN
    LET lumMax == MathMax(MathMax(f[1], f[2]), f[3])
    IN  <<Add(f[1], Mul(Sub(f[1], lumMax), -20, 100)),
          Add(f[2], Mul(Sub(f[2], lumMax), -20, 100)),
          Add(f[3], Mul(Sub(f[3], lumMax), -20, 100))>>
  ELSE IF grading = "sepia" THEN
    LET grey == DivS(Add(Add(f[1], f[2]), f[3]), 3)
    IN  <<Add(grey, Num(2, 10)), Add(grey, Num(1, 10)), grey>>
  ELSE IF grading = "artistic" THEN
    LET lumAvg == DivS(Add(Add(f[1], f[2]), f[3]), 3)
    IN  <<Mul(Add(lumAvg, Mul(Sub(f[1], lumAvg), 180, 100)), 110, 100),
          Mul(Add(lumAvg, Mul(Sub(f[2], lumAvg), 180, 100)), 110, 100),
          Add(lumAvg, Mul(Sub(f[3], lumAvg), 180, 100))>>
  ELSE IF grading = "stable" THEN
    <<Add(Mul(f[1], 95, 100), Num(25, 1000)),
      Add(Mul(f[2], 95, 100), Num(25, 1000)),
      Add(Mul(f[3], 95, 100), Num(25, 1000))>>
  ELSE f

\* the contrast step pivoting on 128 / 255, as the 8-bit build's pivot carried over
ContrastPivot128(f, contrast) ==
  <<Add(Mul(Sub(f[1], Num(128, 255)), contrast, 100), Num(128, 255)),
    Add(Mul(Sub(f[2], Num(128, 255)), contrast, 100), Num(128, 255)),
    Add(Mul(Sub(f[3], Num(128, 255)), contrast, 100), Num(128, 255))>>

\* the contrast step with no pivot: f = f * contrast
ContrastNoPivot(f, contrast) ==
  <<Mul(f[1], contrast, 100), Mul(f[2], contrast, 100), Mul(f[3], contrast, 100)>>

\* f = ((f - 0.5) * contrast) + 0.5
Contrast(f, contrast) ==
  <<Add(Mul(Sub(f[1], Num(1, 2)), contrast, 100), Num(1, 2)),
    Add(Mul(Sub(f[2], Num(1, 2)), contrast, 100), Num(1, 2)),
    Add(Mul(Sub(f[3], Num(1, 2)), contrast, 100), Num(1, 2))>>

\* the saturation step with (saturation || 1): a saturation of 0 read as unset
SaturationOrOne(f, saturation, colorWeight) ==
  LET s == IF saturation = 0 THEN 100 ELSE saturation
      currentLum == Lum601(f[1], f[2], f[3])
  IN  <<Add(currentLum, Mul(Mul(Sub(f[1], currentLum), s, 100), colorWeight, 100)),
        Add(currentLum, Mul(Mul(Sub(f[2], currentLum), s, 100), colorWeight, 100)),
        Add(currentLum, Mul(Mul(Sub(f[3], currentLum), s, 100), colorWeight, 100))>>

\* the saturation step around the mean of the channels instead of the luminance
SaturationMean(f, saturation, colorWeight) ==
  LET mean == DivS(Add(Add(f[1], f[2]), f[3]), 3)
  IN  <<Add(mean, Mul(Mul(Sub(f[1], mean), saturation, 100), colorWeight, 100)),
        Add(mean, Mul(Mul(Sub(f[2], mean), saturation, 100), colorWeight, 100)),
        Add(mean, Mul(Mul(Sub(f[3], mean), saturation, 100), colorWeight, 100))>>

\* currentLum = 0.299 fR + 0.587 fG + 0.114 fB; f = currentLum + (f - currentLum) * s
\* with s = saturation * colorWeight, both in hundredths (colorWeight is 100
\* where the code has none)
Saturation(f, saturation, colorWeight) ==
  LET currentLum == Lum601(f[1], f[2], f[3])
  IN  <<Add(currentLum, Mul(Mul(Sub(f[1], currentLum), saturation, 100), colorWeight, 100)),
        Add(currentLum, Mul(Mul(Sub(f[2], currentLum), saturation, 100), colorWeight, 100)),
        Add(currentLum, Mul(Mul(Sub(f[3], currentLum), saturation, 100), colorWeight, 100))>>

\* the three values handed to data[i], data[i+1], data[i+2] at pixel (x, y),
\* before Math.min / Math.max
PixelP7B(img, x, y, config) ==
  LET width == img.width
      height == img.height
      i == (y * width + x) * 4
      r == D(img, i)
      g == D(img, i + 1)
      b == D(img, i + 2)
      L == DivS(Lum601(FromInt(r), FromInt(g), FromInt(b)), 255)
      entropy == OrDefault(entropyMapP7B(img, x, y), FromInt(10))
      xPos == DivS(FromInt(x), width)
      yPos == DivS(FromInt(y), height)
      branch == BranchP7B(L, xPos, yPos, entropy)
      t == Then(TargetP7B(branch, L, y, height, WeightsP7B(config.engine)),
                LAMBDA v : BoostP7B(v, config.engine, entropy))
      blended == Then(t, LAMBDA v : <<Blend(r, v[1], config.intensity),
                                      Blend(g, v[2], config.intensity),
                                      Blend(b, v[3], config.intensity)>>)
      warmed == Then(blended, LAMBDA v : Temperature(v, config.temp, 500))
      graded == Then(warmed, LAMBDA v : GradingP7B(v, config.grading))
      contrasted == Then(graded, LAMBDA v : Contrast(v, config.contrast))
      f == Then(contrasted, LAMBDA v : Saturation(v, config.saturation, 100))
  IN  Then(f, LAMBDA v : <<MulS(v[1], 255), MulS(v[2], 255), MulS(v[3], 255)>>)

\* ------------------------------------------------------------------------
\* services/geminiService.ts, second processImageLocally (lines 160-292):
\* the same structural pass and chain, no engine, four grading presets
\* ------------------------------------------------------------------------
sampleStepGS2(img) == IF img.width > 1000 THEN 2 ELSE 1

VisitedGS2(img) ==
  {p \in Pixels(img) :
     /\ p[1] >= 1 /\ p[1] < img.width - 1 /\ (p[1] - 1) % sampleStepGS2(img) = 0
     /\ p[2] >= 1 /\ p[2] < img.height - 1 /\ (p[2] - 1) % sampleStepGS2(img) = 0}

entropyMapGS2(img, x, y) ==
  IF <<x, y>> \notin VisitedGS2(img) THEN Zero
  ELSE IF \E i \in EntropyReadsP7B(img, x, y) : ~InBuffer(img, i) THEN NaN
  ELSE
    LET width == img.width
        idx == (y * width + x) * 4
        lum == Lum601(FromInt(D(img, idx)), FromInt(D(img, idx + 1)), FromInt(D(img, idx + 2)))
        neighbors == DivS(FromInt(D(img, ((y - 1) * width + x) * 4)
                                  + D(img, ((y + 1) * width + x) * 4)
                                  + D(img, (y * width + (x - 1)) * 4)
                                  + D(img, (y * width + (x + 1)) * 4)), 4)
    IN  MathAbs(Sub(lum, neighbors))

GradingGS2(f, grading) ==
  IF grading \in {"cinematic", "vintage", "vibrant", "sepia"} THEN GradingP7B(f, grading) ELSE f

PixelGS2(img, x, y, config) ==
  LET width == img.width
      height == img.height
      i == (y * width + x) * 4
      r == D(img, i)
      g == D(img, i + 1)
      b == D(img, i + 2)
      L == DivS(Lum601(FromInt(r), FromInt(g), FromInt(b)), 255)
      entropy == OrDefault(entropyMapGS2(img, x, y), FromInt(10))
      xPos == DivS(FromInt(x), width)
      yPos == DivS(FromInt(y), height)
      branch == BranchP7B(L, xPos, yPos, entropy)
      t == TargetP7B(branch, L, y, height, <<100, 100, 100>>)
      blended == Then(t, LAMBDA v : <<Blend(r, v[1], config.intensity),
                                      Blend(g, v[2], config.intensity),
                                      Blend(b, v[3], config.intensity)>>)
      warmed == Then(blended, LAMBDA v : Temperature(v, config.temp, 500))
      graded == Then(warmed, LAMBDA v : GradingGS2(v, config.grading))
      contrasted == Then(graded, LAMBDA v : Contrast(v, config.contrast))
      f == Then(contrasted, LAMBDA v : Saturation(v, config.saturation, 100))
  IN  Then(f, LAMBDA v : <<MulS(v[1], 255), MulS(v[2], 255), MulS(v[3], 255)>>)

\* ------------------------------------------------------------------------
\* part_007, first processImageLocally (lines 15-119)
\* ------------------------------------------------------------------------
VisitedP7A(img) ==
  {p \in Pixels(img) :
     /\ p[1] >= 1 /\ p[1] < img.width - 1 /\ (p[1] - 1) % 2 = 0
     /\ p[2] >= 1 /\ p[2] < img.height - 1 /\ (p[2] - 1) % 2 = 0}

EntropyReadsP7A(img, x, y) ==
  LET width == img.width
      idx == (y * width + x) * 4
  IN  {idx, idx + 1, idx + 2, ((y - 1) * width + x) * 4, ((y + 1) * width + x) * 4}

entropyMapP7A(img, x, y) ==
  IF <<x, y>> \notin VisitedP7A(img) THEN Zero
  ELSE IF \E i \in EntropyReadsP7A(img, x, y) : ~InBuffer(img, i) THEN NaN
  ELSE
    LET width == img.width
        idx == (y * width + x) * 4
        lum == Lum601(FromInt(D(img, idx)), FromInt(D(img, idx + 1)), FromInt(D(img, idx + 2)))
        neighbors == DivS(FromInt(D(img, ((y - 1) * width + x) * 4)
                                  + D(img, ((y + 1) * width + x) * 4)), 2)
    IN  MathAbs(Sub(lum, neighbors))

\* Engine Specific Bias
EngineBiasP7A(engine, lum, entropy) ==
  IF engine = "opencv" THEN <<Mul(lum, 112, 100), Mul(lum, 98, 100), Mul(lum, 105, 100)>>
  ELSE IF engine = "paddlehub" THEN
    LET edgeBoost == IF Gt(entropy, FromInt(20)) THEN 110 ELSE 100
    IN  <<Mul(lum, edgeBoost, 100), Mul(Mul(lum, 110, 100), edgeBoost, 100), Mul(lum, 95, 100)>>
  ELSE <<lum, lum, lum>>

\* Semantic Colorization Simulation
SemanticP7A(c, lum, yPos, entropy) ==
  IF Lt(yPos, Num(4, 10)) /\ Gt(lum, Num(5, 10)) THEN
    <<c[1], Mul(c[2], 110, 100), Mul(c[3], 140, 100)>>
  ELSE IF Gt(yPos, Num(6, 10)) /\ Gt(entropy, FromInt(15)) THEN
    <<Mul(c[1], 110, 100), Mul(c[2], 130, 100), c[3]>>
  ELSE IF Gt(lum, Num(3, 10)) /\ Lt(lum, Num(8, 10)) THEN
    <<Mul(c[1], 125, 100), Mul(c[2], 110, 100), c[3]>>
  ELSE c

GradingP7A(c, grading) ==
  IF grading = "artistic" THEN
    <<Mul(c[1], 120, 100), Mul(c[2], 110, 100), Mul(c[3], 130, 100)>>
  ELSE IF grading = "stable" THEN
    <<Add(Mul(c[1], 95, 100), Num(2, 100)),
      Add(Mul(c[2], 95, 100), Num(2, 100)),
      Add(Mul(c[3], 95, 100), Num(2, 100))>>
  ELSE IF grading = "cinematic" THEN
    <<Mul(c[1], 110, 100), c[2], Mul(c[3], 120, 100)>>
  ELSE IF grading = "vintage" THEN
    <<Add(c[1], Num(5, 100)), Add(c[2], Num(2, 100)), c[3]>>
  ELSE c

PixelP7A(img, x, y, config) ==
  LET width == img.width
      height == img.height
      i == (y * width + x) * 4
      lum == DivS(Lum601(FromInt(D(img, i)), FromInt(D(img, i + 1)), FromInt(D(img, i + 2))), 255)
      entropy == OrDefault(entropyMapP7A(img, x, y), FromInt(10))
      yPos == DivS(FromInt(y), height)
      biased == EngineBiasP7A(config.engine, lum, entropy)
      semantic == Then(biased, LAMBDA v : SemanticP7A(v, lum, yPos, entropy))
      graded == Then(semantic, LAMBDA v : GradingP7A(v, config.grading))
      warmed == Then(graded, LAMBDA v : Temperature(v, config.temp, 1000))
      blended == Then(warmed, LAMBDA v : <<Blend(D(img, i), v[1], config.intensity),
                                           Blend(D(img, i + 1), v[2], config.intensity),
                                           Blend(D(img, i + 2), v[3], config.intensity)>>)
      contrasted == Then(blended, LAMBDA v : Contrast(v, config.contrast))
      f == Then(contrasted, LAMBDA v : Saturation(v, config.saturation, 100))
  IN  Then(f, LAMBDA v : <<MulS(v[1], 255), MulS(v[2], 255), MulS(v[3], 255)>>)

\* ------------------------------------------------------------------------
\* services/restorationService.ts, processImageLocally (lines 17-157)
\* ------------------------------------------------------------------------
\* lumMap[y * width + x]
lumMapRS(img, x, y) ==
  LET idx == (y * img.width + x) * 4
  IN  DivS(Lum601(FromInt(D(img, idx)), FromInt(D(img, idx + 1)), FromInt(D(img, idx + 2))), 255)

VisitedRS(img) ==
  {p \in Pixels(img) :
     /\ p[1] >= 1 /\ p[1] < img.width - 1 /\ (p[1] - 1) % 2 = 0
     /\ p[2] >= 1 /\ p[2] < img.height - 1 /\ (p[2] - 1) % 2 = 0}

\* the indices of lumMap the entropy approximation reads at (x, y)
EntropyReadsRS(img, x, y) ==
  LET idx == y * img.width + x
  IN  {idx, idx + 1, idx + img.width}

entropyMapRS(img, x, y) ==
  IF <<x, y>> \notin VisitedRS(img) THEN Zero
  ELSE IF \E k \in EntropyReadsRS(img, x, y) : k < 0 \/ k >= img.width * img.height THEN NaN
  ELSE
    LET here == lumMapRS(img, x, y)
    IN  Add(MathAbs(Sub(here, lumMapRS(img, x + 1, y))),
            MathAbs(Sub(here, lumMapRS(img, x, y + 1))))

\* colorWeight left at its initial 1.0 for every engine
colorWeightOne(engine) == 100

\* colorWeight, in hundredths
colorWeightRS(engine) ==
  IF engine = "paddlehub" THEN 125 ELSE IF engine = "opencv" THEN 110 ELSE 100

\* Semantic Color Injections: <<r, g, b>>
TargetRS(engine, lum, yPos, entropy) ==
  IF engine = "paddlehub" THEN
    LET textureBoost == IF Gt(entropy, Num(1, 10)) THEN 115 ELSE 100
    IN  IF Lt(yPos, Num(45, 100)) /\ Gt(lum, Num(35, 100)) THEN
          <<Mul(lum, 70, 100), Mul(lum, 90, 100), Mul(Mul(lum, 160, 100), textureBoost, 100)>>
        ELSE IF Gt(entropy, Num(15, 100)) /\ Gt(yPos, Num(4, 10)) THEN
          <<Mul(lum, 90, 100), Mul(Mul(lum, 145, 100), textureBoost, 100), Mul(lum, 75, 100)>>
        ELSE IF Gt(lum, Num(25, 100)) /\ Lt(lum, Num(85, 100)) THEN
          <<Mul(Mul(lum, 150, 100), textureBoost, 100), Mul(lum, 115, 100), Mul(lum, 90, 100)>>
        ELSE
          <<Mul(lum, 110, 100), Mul(lum, 105, 100), Mul(lum, 95, 100)>>
  ELSE IF engine = "opencv" THEN
    IF Gt(lum, Num(4, 10)) /\ Lt(lum, Num(9, 10)) THEN
      <<Mul(lum, 130, 100), Mul(lum, 110, 100), Mul(lum, 95, 100)>>
    ELSE IF Lt(yPos, Num(35, 100)) THEN
      <<Mul(lum, 85, 100), Mul(lum, 95, 100), Mul(lum, 125, 100)>>
    ELSE
      <<Mul(lum, 105, 100), lum, Mul(lum, 98, 100)>>
  ELSE
    <<Mul(lum, 115, 100), Mul(lum, 105, 100), Mul(lum, 90, 100)>>

GradingRS(f, grading) ==
  IF grading = "artistic" THEN
    <<Mul(f[1], 125, 100), Mul(f[2], 110, 100), Mul(f[3], 135, 100)>>
  ELSE IF grading = "stable" THEN
    <<Add(Mul(f[1], 90, 100), Num(5, 100)),
      Add(Mul(f[2], 90, 100), Num(5, 100)),
      Add(Mul(f[3], 90, 100), Num(5, 100))>>
  ELSE IF grading = "cinematic" THEN
    <<Mul(f[1], 110, 100), Mul(f[2], 95, 100), Mul(f[3], 130, 100)>>
  ELSE IF grading = "vibrant" THEN
    <<Mul(f[1], 130, 100), Mul(f[2], 130, 100), Mul(f[3], 130, 100)>>
  ELSE IF grading = "vintage" THEN
    <<Add(f[1], Num(8, 100)), Add(f[2], Num(4, 100)), Sub(f[3], Num(2, 100))>>
  ELSE IF grading = "sepia" THEN
    LET grey == DivS(Add(Add(f[1], f[2]), f[3]), 3)
    IN  <<Add(grey, Num(15, 100)), Add(grey, Num(8, 100)), grey>>
  ELSE f

PixelRS(img, x, y, config) ==
  LET width == img.width
      height == img.height
      i == (y * width + x) * 4
      lum == lumMapRS(img, x, y)
      entropy == OrDefault(entropyMapRS(img, x, y), Num(5, 100))
      yPos == DivS(FromInt(y), height)
      target == TargetRS(config.engine, lum, yPos, entropy)
      warmed == Then(target, LAMBDA v : Temperature(v, config.temp, 800))
      blended == Then(warmed, LAMBDA v : <<Blend(D(img, i), v[1], config.intensity),
                                           Blend(D(img, i + 1), v[2], config.intensity),
                                           Blend(D(img, i + 2), v[3], config.intensity)>>)
      graded == Then(blended, LAMBDA v : GradingRS(v, config.grading))
      contrasted == Then(graded, LAMBDA v : Contrast(v, config.contrast))
      f == Then(contrasted,
                LAMBDA v : Saturation(v, config.saturation, colorWeightRS(config.engine)))
  IN  Then(f, LAMBDA v : <<MulS(v[1], 255), MulS(v[2], 255), MulS(v[3], 255)>>)

\* ------------------------------------------------------------------------
\* services/geminiService.ts, first processImageLocally (lines 13-126):
\* 8-bit value space, no grading, no engine
\* ------------------------------------------------------------------------
\* distFromCenter = sqrt(N) / (2 width height) with
\* N = (2x - width)^2 height^2 + (2y - height)^2 width^2
DistNumGS1(x, y, width, height) ==
  (2 * x - width) * (2 * x - width) * height * height
  + (2 * y - height) * (2 * y - height) * width * width

\* the rasters on which every distFromCenter below 2/3 is rational
RationalGS1(img) ==
  \A p \in Pixels(img) :
    LET N == DistNumGS1(p[1], p[2], img.width, img.height)
        wh == img.width * img.height
    IN  9 * N >= 16 * wh * wh \/ \E k \in 0..(2 * wh) : k * k = N

\* centerWeight = Math.max(0, 1 - distFromCenter * 1.5) as a fraction <<num, den>>:
\* 0 from distFromCenter = 2/3 on, (4 width height - 3 sqrt(N)) / (4 width height) below
centerWeightGS1(x, y, width, height) ==
  LET N == DistNumGS1(x, y, width, height)
      wh == width * height
  IN  IF 9 * N >= 16 * wh * wh THEN <<0, 1>>
      ELSE <<4 * wh - 3 * (CHOOSE k \in 0..(2 * wh) : k * k = N), 4 * wh>>

\* Position-Aware Heuristic Mapping: <<targetR, targetG, targetB>>
TargetGS1(lum, x, y, width, height) ==
  LET nL == DivS(lum, 255)
      nY == DivS(FromInt(y), height)
  IN  IF Lt(nL, Num(15, 100)) THEN
        <<Mul(lum, 85, 100), Mul(lum, 90, 100), Mul(lum, 115, 100)>>
      ELSE IF Lt(nY, Num(35, 100)) /\ Gt(nL, Num(4, 10)) THEN
        <<Mul(lum, 85, 100), Mul(lum, 95, 100), Mul(lum, 140, 100)>>
      ELSE IF Gt(nY, Num(7, 10)) /\ Lt(nL, Num(6, 10)) THEN
        <<Mul(lum, 110, 100), Mul(lum, 125, 100), Mul(lum, 90, 100)>>
      ELSE IF Gt(nL, Num(3, 10)) /\ Lt(nL, Num(8, 10)) THEN
        LET centerWeight == centerWeightGS1(x, y, width, height)
            part == Mul(lum, centerWeight[1], centerWeight[2])
        IN  <<Add(Mul(lum, 125, 100), Mul(part, 15, 100)),
              Add(Mul(lum, 105, 100), Mul(part, 5, 100)),
              Sub(Mul(lum, 85, 100), Mul(part, 10, 100))>>
      ELSE
        <<Mul(lum, 105, 100), Mul(lum, 103, 100), lum>>

\* rOffset = temp > 0 ? temp * 0.35 : temp * 0.1
rOffsetGS1(temp) == IF temp > 0 THEN Num(temp * 35, 100) ELSE Num(temp * 10, 100)

\* bOffset = temp < 0 ? Math.abs(temp) * 0.45 : -temp * 0.15
bOffsetGS1(temp) == IF temp < 0 THEN Num((-temp) * 45, 100) ELSE Num((-temp) * 15, 100)

\* final = c * (1 - intensity) + t * intensity
BlendGS1(c, t, intensity) ==
  Add(Mul(FromInt(c), 100 - intensity, 100), Mul(t, intensity, 100))

\* final = ((final - 128) * contrast) + 128
ContrastGS1(f, contrast) ==
  <<Add(Mul(Sub(f[1], FromInt(128)), contrast, 100), FromInt(128)),
    Add(Mul(Sub(f[2], FromInt(128)), contrast, 100), FromInt(128)),
    Add(Mul(Sub(f[3], FromInt(128)), contrast, 100), FromInt(128))>>

PixelGS1(img, x, y, config) ==
  LET width == img.width
      height == img.height
      i == (y * width + x) * 4
      r == D(img, i)
      g == D(img, i + 1)
      b == D(img, i + 2)
      lum == Lum601(FromInt(r), FromInt(g), FromInt(b))
      target == TargetGS1(lum, x, y, width, height)
      blended == Then(target,
                      LAMBDA v : <<BlendGS1(r, Add(v[1], rOffsetGS1(config.temp)), config.intensity),
                                   BlendGS1(g, v[2], config.intensity),
                                   BlendGS1(b, Add(v[3], bOffsetGS1(config.temp)), config.intensity)>>)
      contrasted == Then(blended, LAMBDA v : ContrastGS1(v, config.contrast))
  IN  Then(contrasted, LAMBDA v : Saturation(v, config.saturation, 100))

\* ------------------------------------------------------------------------
\* The builds of processImageLocally, and what each registers and reports
\* ------------------------------------------------------------------------
Variants == {"RS", "P7A", "P7B", "GS1", "GS2"}

\* the engine-aware builds (RestoreConfig has an engine field)
EngineAware == {"RS", "P7A", "P7B"}

\* whether the build assigns img.onerror
HasOnError(variant) == variant \in {"P7B", "GS1", "GS2"}

\* the message of the Error the promise rejects with when getContext returns null
ContextMessage(variant) ==
  IF variant = "GS1" THEN "Could not get canvas context"
  ELSE IF variant \in {"P7B", "GS2"}
    THEN "Local engine failed: Canvas context initialization failed."
  ELSE "Canvas context initialization failed."

\* the message of the Error img.onerror rejects with
LoadMessage(variant) ==
  IF variant = "GS1" THEN "Failed to load image for processing"
  ELSE IF variant = "GS2"
    THEN "Resource failed to load. Check for ad-blocker interference or corrupted files."
  ELSE "Resource failed to load."

\* the body of img.onload runs inside try { } catch (e) { reject(...) }
HasTry(variant) == variant # "GS1"

\* the message of the IndexSizeError getImageData throws for a zero width or height
IndexSizeMessage == "The source width is 0."

\* the message of the Error the catch of img.onload rejects with
CatchMessage(variant, message) ==
  IF variant \in {"P7B", "GS2"} THEN "Local engine failed: " \o message ELSE message

\* the three values of pixel (x, y) before the clamped store, in 8-bit units
Pixel(variant, img, x, y, config) ==
  IF variant = "RS" THEN PixelRS(img, x, y, config)
  ELSE IF variant = "P7A" THEN PixelP7A(img, x, y, config)
  ELSE IF variant = "P7B" THEN PixelP7B(img, x, y, config)
  ELSE IF variant = "GS2" THEN PixelGS2(img, x, y, config)
  ELSE PixelGS1(img, x, y, config)

\* the pixels the pass before the colorization loop visits
Visited(variant, img) ==
  IF variant = "RS" THEN VisitedRS(img)
  ELSE IF variant = "P7A" THEN VisitedP7A(img)
  ELSE IF variant = "P7B" THEN VisitedP7B(img)
  ELSE IF variant = "GS2" THEN VisitedGS2(img)
  ELSE {}

\* the indices of data read by that pass; RS reads data in its luminance pass
\* and lumMap, not data, in its entropy pass
PassReads(variant, img) ==
  IF variant = "RS" THEN {}
  ELSE UNION {IF variant = "P7A" THEN EntropyReadsP7A(img, p[1], p[2])
              ELSE EntropyReadsP7B(img, p[1], p[2]) : p \in Visited(variant, img)}

\* the indices of data read and written by the loops over every pixel
LoopIndices(img) ==
  UNION {{(p[2] * img.width + p[1]) * 4 + c : c \in 0..2} : p \in Pixels(img)}

\* the indices of entropyMap / lumMap read or written: y * width + x in the
\* loops over every pixel, and the neighbours RS reads in its entropy pass
MapIndices(variant, img) ==
  IF variant = "GS1" THEN {}
  ELSE {p[2] * img.width + p[1] : p \in Pixels(img)}
       \cup (IF variant = "RS"
             THEN UNION {EntropyReadsRS(img, p[1], p[2]) : p \in VisitedRS(img)}
             ELSE {})

\* the branch of the five-target chain at pixel (x, y); the builds with another
\* chain record none
BranchAt(variant, img, x, y) ==
  IF variant \in {"P7B", "GS2"} THEN
    LET i == (y * img.width + x) * 4
        L == DivS(Lum601(FromInt(D(img, i)), FromInt(D(img, i + 1)), FromInt(D(img, i + 2))), 255)
        entropy == OrDefault(IF variant = "P7B" THEN entropyMapP7B(img, x, y)
                             ELSE entropyMapGS2(img, x, y), FromInt(10))
    IN  BranchP7B(L, DivS(FromInt(x), img.width), DivS(FromInt(y), img.height), entropy)
  ELSE "none"

\* where a value lies relative to the byte range
Range(v) ==
  IF Sign(v) < 0 THEN "below" ELSE IF Gt(v, FromInt(255)) THEN "above" ELSE "within"

\* the store with neither Math.min / Math.max nor a clamped array: the integer
\* part modulo 256, as a Uint8Array keeps it
StoreWrap(v) ==
  LET q == Floor(DivS(v, 256))
  IN  Floor(Sub(v, FromInt(256 * q)))

\* data[i] = Math.min(255, Math.max(0, v)) into the Uint8ClampedArray
Store(v) == ToUint8Clamp(Clamp255(v))

\* one iteration of the colorization loop at pixel k = y * width + x: the three
\* bytes stored, with where the values lay, and the branch taken
Iteration(variant, img, k, config) ==
  LET x == k % img.width
      y == k \div img.width
  IN  Then(Pixel(variant, img, x, y, config),
           LAMBDA v : [rgb |-> <<Store(v[1]), Store(v[2]), Store(v[3])>>,
                       range |-> <<Range(v[1]), Range(v[2]), Range(v[3])>>,
                       branch |-> BranchAt(variant, img, x, y)])

\* the colorization loop over pixels 0 .. n-1: what each iteration did, in
\* order (an iteration reads and writes the bytes of its own pixel only)
ColorizationLoop(variant, img, n, config) ==
  [k \in 1..n |-> Iteration(variant, img, k - 1, config)]

\* the buffer after a loop that also stores an opaque alpha
WrittenOpaque(img, loop) ==
  [k \in 1..Len(img.data) |->
     IF (k - 1) % 4 = 3 THEN 255 ELSE loop[((k - 1) \div 4) + 1].rgb[((k - 1) % 4) + 1]]

\* the buffer after the loop: the stored bytes, every fourth byte left as it was
Written(img, loop) ==
  [k \in 1..Len(img.data) |->
     IF (k - 1) % 4 = 3 THEN img.data[k] ELSE loop[((k - 1) \div 4) + 1].rgb[((k - 1) % 4) + 1]]

\* ------------------------------------------------------------------------
\* Inputs
\* ------------------------------------------------------------------------
\* rasters are at most MaxDim wide and high
MaxDim == 3

\* processImageLocally runs at most MaxCalls times on the item
MaxCalls == 2

\* a width x height raster of pixels bg, pixel (1, 1) being fg
Raster(width, height, bg, fg) ==
  [width |-> width, height |-> height,
   data |-> [k \in 1..(width * height * 4) |->
               IF (k - 1) \div 4 = width + 1 /\ width > 1 /\ height > 1
               THEN fg[((k - 1) % 4) + 1] ELSE bg[((k - 1) % 4) + 1]]]

Grey(v) == <<v, v, v, 255>>

\* one-pixel rasters: black, a deep shadow, mid greys, white, a translucent colour
Palette == {Grey(0), Grey(20), Grey(127), Grey(128), Grey(255), <<200, 100, 50, 128>>}

\* background and centre of the larger rasters: flat mid grey, a dark pixel on
\* white (strong texture), a mild step, and a colour with a translucent centre
Strong == <<Grey(255), Grey(100)>>

Textures ==
  {<<Grey(128), Grey(128)>>, Strong, <<Grey(148), Grey(128)>>,
   <<<<200, 100, 50, 255>>, <<60, 120, 180, 64>>>>}

\* the one-pixel rasters, every texture on the squares, the strong one on the
\* other shapes
Rasters ==
  {Raster(1, 1, c, c) : c \in Palette}
  \cup {Raster(w, w, t[1], t[2]) : w \in 2..MaxDim, t \in Textures}
  \cup {Raster(w, h, Strong[1], Strong[2]) : w \in 1..MaxDim, h \in 1..MaxDim}

\* what an <img> that fails to decode shows
Broken == [width |-> 0, height |-> 0, data |-> <<>>]

\* images that load with no width or no height: img.width or img.height is 0
ZeroRasters ==
  {[width |-> 0, height |-> 0, data |-> <<>>],
   [width |-> 0, height |-> 2, data |-> <<>>],
   [width |-> 2, height |-> 0, data |-> <<>>]}

\* the files a build is run on
Files(variant) ==
  {[decodable |-> TRUE, raster |-> r] :
     r \in {q \in Rasters : variant = "GS1" => RationalGS1(q)} \cup ZeroRasters}
  \cup {[decodable |-> FALSE, raster |-> Broken]}

GradingPreset == {"none", "cinematic", "vintage", "vibrant", "sepia", "artistic", "stable"}

EngineType == {"local", "opencv", "paddlehub"}

\* a RestoreParams record; saturation, contrast and intensity in hundredths
Params(temp, saturation, contrast, intensity, grading, engine) ==
  [temp |-> temp, saturation |-> saturation, contrast |-> contrast,
   intensity |-> intensity, grading |-> grading, engine |-> engine]

DEFAULT_PARAMS == Params(15, 125, 115, 100, "none", "local")

LUCKY_PROFILES ==
  <<Params(35, 145, 125, 100, "cinematic", "opencv"),
    Params(-15, 130, 110, 90, "vintage", "local"),
    Params(10, 180, 140, 100, "vibrant", "paddlehub"),
    Params(20, 110, 100, 70, "sepia", "local"),
    Params(5, 150, 130, 100, "artistic", "opencv"),
    Params(0, 100, 100, 100, "stable", "paddlehub")>>

\* handleShowOriginal: { ...DEFAULT_PARAMS, intensity: 0 }
ShowOriginal == [DEFAULT_PARAMS EXCEPT !.intensity = 0]

\* every slider at its neutral position
Neutral == Params(0, 100, 100, 0, "none", "local")

\* the settings the buttons of the tuning panel produce
Profiles ==
  {DEFAULT_PARAMS, ShowOriginal} \cup {LUCKY_PROFILES[n] : n \in DOMAIN LUCKY_PROFILES}

\* slider settings: every grading and engine at the neutral and the default
\* position, one slider moved off neutral, and the ends of every range
Tunings ==
  {[Neutral EXCEPT !.grading = g, !.engine = e] : g \in GradingPreset, e \in EngineType}
  \cup {[DEFAULT_PARAMS EXCEPT !.grading = g, !.engine = e] : g \in GradingPreset, e \in EngineType}
  \cup {[Neutral EXCEPT !.temp = t, !.engine = e] : t \in {-100, 100}, e \in EngineType}
  \cup {[Neutral EXCEPT !.saturation = v, !.engine = e] : v \in {0, 300}, e \in EngineType}
  \cup {[Neutral EXCEPT !.contrast = v, !.engine = e] :
          v \in {50, 75, 150, 195, 200}, e \in EngineType}
  \cup {[Neutral EXCEPT !.intensity = v, !.engine = e] : v \in {50, 100}, e \in EngineType}
  \cup {Params(t, sat, c, i, g, "local") :
          t \in {-100, 100}, sat \in {0, 300}, c \in {50, 200}, i \in {0, 100},
          g \in GradingPreset}
  \cup {Params(t, sat, c, i, "none", e) :
          t \in {-100, 100}, sat \in {0, 300}, c \in {50, 200}, i \in {0, 100},
          e \in EngineType}

\* the fields a build's RestoreConfig has: GS1 has neither grading nor engine,
\* GS2 no engine
Project(variant, params) ==
  IF variant = "GS1" THEN [params EXCEPT !.grading = "none", !.engine = "local"]
  ELSE IF variant = "GS2" THEN [params EXCEPT !.engine = "local"]
  ELSE params

\* the side of the uniform mid-grey portrait
PortraitSide == 4

\* the side of the all-black image
BlackSide == 8

\* a uniform mid-grey portrait
Portrait == Raster(PortraitSide, PortraitSide, Grey(128), Grey(128))

\* an image that is black throughout
BlackImage == Raster(BlackSide, BlackSide, Grey(0), Grey(0))

\* the settings the portrait is processed with: the default ones, and the sepia
\* grading over the sliders' ranges, the saturation slider one step off zero
\* included
PortraitTunings ==
  {DEFAULT_PARAMS, LUCKY_PROFILES[4]}
  \cup {Params(t, sat, c, i, "sepia", "local") :
          t \in {0, 100}, sat \in {5, 100, 300}, c \in {50, 100, 200}, i \in {0, 100}}

\* the settings the black image is processed with: the default ones, and with
\* the temperature slider at 0 every engine, the gradings that add nothing at
\* the ends of the contrast range, and the ends of the other ranges
BlackTunings ==
  {DEFAULT_PARAMS}
  \cup {Params(0, 100, 100, 100, "none", e) : e \in EngineType}
  \cup {Params(0, 100, c, 100, g, "local") :
          c \in {50, 100, 200}, g \in {"none", "cinematic", "vibrant"}}
  \cup {Params(0, sat, c, i, "none", "local") :
          sat \in {0, 300}, c \in {50, 200}, i \in {0, 100}}

\* the settings a file is processed with: every one on one-pixel rasters, the
\* panel's on the larger ones
Configs(variant, f) ==
  {Project(variant, c) :
     c \in IF f.raster = Portrait THEN PortraitTunings
           ELSE IF f.raster = BlackImage THEN BlackTunings
           ELSE IF Len(f.raster.data) <= 4 THEN Tunings \cup Profiles ELSE Profiles}

\* the files of the two reference images, with one that does not decode and
\* one that loads with no width
ScenarioFiles(variant) ==
  {[decodable |-> TRUE, raster |-> r] :
     r \in {q \in {Portrait, BlackImage} : variant = "GS1" => RationalGS1(q)}
           \cup {[width |-> 0, height |-> 2, data |-> <<>>]}}
  \cup {[decodable |-> FALSE, raster |-> Broken]}

\* ------------------------------------------------------------------------
\* State: one work item, and the processImageLocally call running on it
\* ------------------------------------------------------------------------
VARIABLES
  variant,    \* the build of processImageLocally the page imports
  file,       \* item.file: whether it decodes, and the raster it decodes to
  status,     \* item.status
  error,      \* item.error ("" for undefined)
  resultUrl,  \* item.resultUrl: the raster encoded (<<>> for undefined)
  config,     \* the RestoreParams of the latest call
  calls,      \* how many times processImageLocally was called
  image,      \* the <img> of the latest call: none, loading, complete, broken
  promise,    \* the promise of the latest call: none, pending, resolved, rejected
  reason,     \* the message of the Error it rejected with
  canvas,     \* the canvas of the latest call after putImageData
  awaiting,   \* processSingle is suspended at its await
  loop,       \* what the colorization loop of the latest call did at each pixel
  indices,    \* the indices of data the latest call read or wrote
  mapIndices, \* the indices of entropyMap / lumMap it read or wrote
  history     \* <<config, data>> of every call that resolved

\* the state of the page: the list of items and what runs on them
VARIABLES
  images,        \* the images state: the items, in display order
  isProcessing,  \* the isProcessing state
  selectedIndex, \* the selectedIndex state (0 for null)
  tuningParams,  \* the tuningParams state
  timer,         \* processTimerRef: the item and the params its callback closed over
  flights,       \* the processSingle calls suspended at their await
  saved,         \* localStorage: the tuning saved for each file
  created,       \* how many items were ever added
  launched,      \* how many processSingle calls were ever made
  app,           \* the build of the App component that is mounted
  urls           \* the data URLs of the page: <<file, params, bytes they encode>>

itemVars ==
  <<file, status, error, resultUrl, config, calls, image, promise, reason,
    canvas, awaiting, loop, indices, mapIndices, history>>

pageVars ==
  <<images, isProcessing, selectedIndex, tuningParams, timer, flights, saved, created,
    launched, app, urls>>

vars == <<variant, itemVars, pageVars>>

\* the page as it mounts: no items, nothing selected, nothing running
PageInit ==
  /\ images = <<>>
  /\ isProcessing = FALSE
  /\ selectedIndex = 0
  /\ tuningParams = DEFAULT_PARAMS
  /\ timer = <<>>
  /\ flights = {}
  /\ saved = <<>>
  /\ created = 0
  /\ launched = 0

NoCanvas == [width |-> 0, height |-> 0, data |-> <<>>]

\* the item before processNextPending picks it up
ItemInit ==
  /\ status = "pending"
  /\ error = ""
  /\ resultUrl = <<>>
  /\ config = DEFAULT_PARAMS
  /\ calls = 0
  /\ image = "none"
  /\ promise = "none"
  /\ reason = ""
  /\ canvas = NoCanvas
  /\ awaiting = FALSE
  /\ loop = <<>>
  /\ indices = {}
  /\ mapIndices = {}
  /\ history = {}

Init ==
  /\ variant \in Variants
  /\ file \in Files(variant)
  /\ ItemInit
  /\ PageInit
  /\ app = "App2"
  /\ urls = {}

\* processImageLocally(base64, type, params) up to its return: a new Image with
\* its handlers, img.src set, the pending promise returned
Invoke(params) ==
  /\ config' = params
  /\ calls' = calls + 1
  /\ image' = "loading"
  /\ promise' = "pending"
  /\ reason' = ""
  /\ awaiting' = TRUE

\* processNextPending: the pending item is marked processing and processSingle
\* runs to its await, with the saved tuning of the file or DEFAULT_PARAMS
processNextPending ==
  /\ status = "pending"
  /\ ~awaiting
  /\ \E params \in Configs(variant, file) :
       Invoke(params)
  /\ status' = "processing"
  /\ error' = ""
  /\ UNCHANGED <<variant, file, resultUrl, canvas, loop, indices, mapIndices, history>>
  /\ UNCHANGED pageVars

\* onSelectImage, then the tuning effect's timer: the selected item is
\* processed again with tuningParams, the saved tuning of the file or
\* DEFAULT_PARAMS, which is what processNextPending called it with
tuningEffect ==
  /\ status \in {"completed", "error"}
  /\ ~awaiting
  /\ calls < MaxCalls
  /\ Invoke(config)
  /\ UNCHANGED <<variant, file, status, error, resultUrl, canvas, loop, indices,
                 mapIndices, history>>
  /\ UNCHANGED pageVars

\* getImageData on one canvas kept across calls and not redrawn: the pixels
\* the previous call left there
getImageDataKept(img, previous) == IF previous.data = <<>> THEN img ELSE previous

\* ctx.drawImage(img, 0, 0); ctx.getImageData(0, 0, width, height) on the new canvas
getImageData(img, previous) == img

\* img.onload with a 2d context: the passes over the buffer, putImageData, resolve
onloadResolve ==
  /\ image = "loading"
  /\ file.decodable
  /\ file.raster.width > 0 /\ file.raster.height > 0
  /\ LET img == getImageData(file.raster, canvas)
     IN  /\ loop' = ColorizationLoop(variant, img, img.width * img.height, config)
         /\ canvas' = [width |-> img.width, height |-> img.height,
                       data |-> Written(img, loop')]
         /\ history' = history \cup {<<config, canvas'.data>>}
         /\ indices' = PassReads(variant, img) \cup LoopIndices(img)
         /\ mapIndices' = MapIndices(variant, img)
  /\ image' = "complete"
  /\ promise' = "resolved"
  /\ UNCHANGED <<variant, file, status, error, resultUrl, config, calls, reason, awaiting>>
  /\ UNCHANGED pageVars

\* img.onload when getContext('2d') returns null: the promise rejects
onloadNoContext ==
  /\ image = "loading"
  /\ file.decodable
  /\ image' = "complete"
  /\ promise' = "rejected"
  /\ reason' = ContextMessage(variant)
  /\ UNCHANGED <<variant, file, status, error, resultUrl, config, calls, canvas, awaiting,
                 loop, indices, mapIndices, history>>
  /\ UNCHANGED pageVars

\* img.onload on an image of zero width or height: getImageData(0, 0, 0, h)
\* throws before the buffer exists; the catch rejects where the body is in a
\* try, and the exception leaves the handler where it is not
onloadThrow ==
  /\ image = "loading"
  /\ file.decodable
  /\ file.raster.width = 0 \/ file.raster.height = 0
  /\ image' = "complete"
  /\ IF HasTry(variant)
     THEN promise' = "rejected" /\ reason' = CatchMessage(variant, IndexSizeMessage)
     ELSE UNCHANGED <<promise, reason>>
  /\ UNCHANGED <<variant, file, status, error, resultUrl, config, calls, canvas, awaiting,
                 loop, indices, mapIndices, history>>
  /\ UNCHANGED pageVars

\* the error event of the <img>: img.onerror rejects where the build has one
onerror ==
  /\ image = "loading"
  /\ ~file.decodable
  /\ image' = "broken"
  /\ IF HasOnError(variant)
     THEN promise' = "rejected" /\ reason' = LoadMessage(variant)
     ELSE UNCHANGED <<promise, reason>>
  /\ UNCHANGED <<variant, file, status, error, resultUrl, config, calls, canvas, awaiting,
                 loop, indices, mapIndices, history>>
  /\ UNCHANGED pageVars

\* err.message || "Unknown error"
MessageOf(message) == IF message = "" THEN "Unknown error" ELSE message

\* processSingle after its await resolved: the item is completed
processSingleCompleted ==
  /\ awaiting
  /\ promise = "resolved"
  /\ awaiting' = FALSE
  /\ status' = "completed"
  /\ resultUrl' = canvas.data
  /\ error' = ""
  /\ UNCHANGED <<variant, file, config, calls, image, promise, reason, canvas, loop,
                 indices, mapIndices, history>>
  /\ UNCHANGED pageVars

\* a catch that also drops the stored result of the item
processSingleCatchClearing ==
  /\ awaiting
  /\ promise = "rejected"
  /\ awaiting' = FALSE
  /\ status' = "error"
  /\ error' = MessageOf(reason)
  /\ resultUrl' = <<>>
  /\ UNCHANGED <<variant, file, config, calls, image, promise, reason, canvas,
                 loop, indices, mapIndices, history>>
  /\ UNCHANGED pageVars

\* processSingle's catch: the item is in error, with the message
processSingleCatch ==
  /\ awaiting
  /\ promise = "rejected"
  /\ awaiting' = FALSE
  /\ status' = "error"
  /\ error' = MessageOf(reason)
  /\ UNCHANGED <<variant, file, resultUrl, config, calls, image, promise, reason, canvas,
                 loop, indices, mapIndices, history>>
  /\ UNCHANGED pageVars

Next ==
  \/ processNextPending
  \/ tuningEffect
  \/ onloadResolve
  \/ onloadNoContext
  \/ onloadThrow
  \/ onerror
  \/ processSingleCompleted
  \/ processSingleCatch

Spec == Init /\ [][Next]_vars

\* one work item on one of the reference images
ScenarioInit ==
  /\ variant \in Variants
  /\ file \in ScenarioFiles(variant)
  /\ ItemInit
  /\ PageInit
  /\ app = "App2"
  /\ urls = {}

ScenarioSpec == ScenarioInit /\ [][Next]_vars

\* ------------------------------------------------------------------------
\* The page: the list of items, the queue, the selected item and its tuning
\* ------------------------------------------------------------------------
\* at most MaxItems items are ever added
MaxItems == 2

\* processSingle is called at most MaxLaunched times
MaxLaunched == 2

\* the files dropped on the page, by name: a one-pixel grey photo, one that
\* does not decode, and one the FileReader cannot read
PageFiles == {"photo", "broken", "unreadable"}

\* the File of that name
FileOf(name) ==
  IF name = "photo"
  THEN [decodable |-> TRUE, readable |-> TRUE, raster |-> Raster(1, 1, Grey(128), Grey(128))]
  ELSE [decodable |-> FALSE, readable |-> name # "unreadable", raster |-> Broken]

\* the settings the tuning panel is moved between
PageTunings == {DEFAULT_PARAMS, LUCKY_PROFILES[1]}

\* a new ImageItem; call is the processSingle call that last wrote the item
NewItem(id, f) ==
  [id |-> id, file |-> f, status |-> "pending", resultUrl |-> <<>>, error |-> "",
   call |-> 0]

\* the builds of the App component: the first and the second of App.tsx, and
\* the one of part_005
Apps == {"App1", "App2", "P5"}

\* the module each build imports processImageLocally from: geminiService
\* (its current build) in the first, restorationService in the others
Imported(build) == IF build = "App1" THEN "GS2" ELSE "RS"

\* localStorage.getItem(getStorageKey(item)), or DEFAULT_PARAMS
SavedOr(f) == IF f \in DOMAIN saved THEN saved[f] ELSE DEFAULT_PARAMS

\* the params processNextPending calls processSingle with: the saved tuning
\* of the file, and always DEFAULT_PARAMS in the first build
QueueParams(f) == IF app = "App1" THEN DEFAULT_PARAMS ELSE SavedOr(f)

\* the fields processNextPending writes with status 'processing':
\* error: undefined, which the build of part_005 leaves out
Processing(item) ==
  IF app = "P5" THEN [item EXCEPT !.status = "processing"]
  ELSE [item EXCEPT !.status = "processing", !.error = ""]

\* the fields processSingle writes when its await returned: only the second
\* build of App.tsx writes error: undefined
Completed(item, url, call) ==
  IF app = "App2"
  THEN [item EXCEPT !.status = "completed", !.resultUrl = url, !.error = "", !.call = call]
  ELSE [item EXCEPT !.status = "completed", !.resultUrl = url, !.call = call]

\* the message of what fileToBase64 rejects with: reader.onerror passes the
\* ProgressEvent, which has no message
ReaderMessage == ""

\* the error processSingle's catch writes for a rejection with that message:
\* err?.message || String(err), err.message || "Unknown error", err.message
CaughtMessage(message) ==
  IF app = "App2" THEN MessageOf(message)
  ELSE IF app = "App1" THEN (IF message = "" THEN "[object ProgressEvent]" ELSE message)
  ELSE message

\* selectedIndex !== null && images[selectedIndex]
Selected(imgs, index) == index \in DOMAIN imgs

\* the tuning effect after a render in which tuningParams or selectedIndex
\* changed: the timer of the previous run is cleared, and a new one closes
\* over the selected item and the params
TuningTimer(imgs, index, params) ==
  IF Selected(imgs, index)
  THEN [id |-> imgs[index].id, file |-> imgs[index].file, params |-> params]
  ELSE <<>>

\* setImages(prev => prev.map(img => img.id === id ? { ...img, ...fields } : img))
MapItem(imgs, id, Update(_)) ==
  [k \in DOMAIN imgs |-> IF imgs[k].id = id THEN Update(imgs[k]) ELSE imgs[k]]

\* a processSingle call suspended at its await: the item and the params it
\* was called with, who called it, and its number
Flight(item, params, by) ==
  [call |-> launched + 1, id |-> item.id, file |-> item.file, params |-> params, by |-> by]

\* a queue that starts the next pending item whether or not one is running
QueueIdleAlways(busy) == TRUE

\* if (!nextItem || isProcessing) return
QueueIdle(busy) == ~busy

\* the first pending item of the list, 0 when there is none
NextPending(imgs) ==
  IF \E k \in DOMAIN imgs : imgs[k].status = "pending"
  THEN CHOOSE k \in DOMAIN imgs :
         /\ imgs[k].status = "pending"
         /\ \A j \in 1..(k - 1) : imgs[j].status # "pending"
  ELSE 0

\* the effect on [images, processNextPending] after a render that left the
\* list imgs, isProcessing busy and the calls fl: processNextPending marks the
\* first pending item processing and runs processSingle on it with its saved
\* tuning, unless a run is in progress
processNextPendingEffect(imgs, busy, fl) ==
  LET k == NextPending(imgs)
  IN  IF k # 0 /\ QueueIdle(busy)
      THEN /\ launched < MaxLaunched
           /\ launched' = launched + 1
           /\ isProcessing' = TRUE
           /\ images' = MapItem(imgs, imgs[k].id, Processing)
           /\ flights' = fl \cup {Flight(imgs[k], QueueParams(imgs[k].file), "queue")}
      ELSE /\ images' = imgs
           /\ isProcessing' = busy
           /\ flights' = fl
           /\ UNCHANGED launched

\* handleFiles: the dropped files are appended as pending items
handleFiles ==
  /\ \E n \in 1..2 : \E fs \in [1..n -> PageFiles] :
       /\ created + n <= MaxItems
       /\ created' = created + n
       /\ processNextPendingEffect(images \o [k \in 1..n |-> NewItem(created + k, fs[k])],
                                   isProcessing, flights)
  /\ UNCHANGED <<variant, app, itemVars, urls, selectedIndex, tuningParams, timer, saved>>

\* capturePhoto: the captured frame is put in front of the list as a pending item
capturePhoto ==
  /\ created < MaxItems
  /\ created' = created + 1
  /\ \E f \in {g \in PageFiles : FileOf(g).decodable} :
       processNextPendingEffect(<<NewItem(created + 1, f)>> \o images, isProcessing, flights)
  /\ UNCHANGED <<variant, app, itemVars, urls, selectedIndex, tuningParams, timer, saved>>

\* onRemove of a card: setImages(prev => prev.filter(i => i.id !== id))
onRemove ==
  /\ \E k \in DOMAIN images :
       processNextPendingEffect(SelectSeq(images, LAMBDA item : item.id # images[k].id),
                                isProcessing, flights)
  /\ UNCHANGED <<variant, app, itemVars, urls, selectedIndex, tuningParams, timer, saved, created>>

\* the clear button: setImages([])
clearAll ==
  /\ images # <<>>
  /\ processNextPendingEffect(<<>>, isProcessing, flights)
  /\ UNCHANGED <<variant, app, itemVars, urls, selectedIndex, tuningParams, timer, saved, created>>

\* onSelectImage: the item is selected with its saved tuning; the tuning
\* effect runs when that changed selectedIndex or tuningParams
onSelectImage ==
  /\ \E k \in DOMAIN images :
       /\ selectedIndex' = k
       /\ tuningParams' = SavedOr(images[k].file)
       /\ timer' = IF selectedIndex' # selectedIndex \/ tuningParams' # tuningParams
                   THEN TuningTimer(images, selectedIndex', tuningParams')
                   ELSE timer
  /\ UNCHANGED <<variant, app, itemVars, urls, images, isProcessing, flights, saved, created, launched>>

\* the close button of the modal: setSelectedIndex(null); the cleanup of the
\* tuning effect clears the timer
closeModal ==
  /\ selectedIndex # 0
  /\ selectedIndex' = 0
  /\ timer' = <<>>
  /\ UNCHANGED <<variant, app, itemVars, urls, images, isProcessing, tuningParams, flights, saved,
                 created, launched>>

\* a slider or a button of the tuning panel: setTuningParams, then the tuning effect
setTuningParams ==
  /\ Selected(images, selectedIndex)
  /\ \E params \in PageTunings :
       /\ params # tuningParams
       /\ tuningParams' = params
       /\ timer' = TuningTimer(images, selectedIndex, params)
  /\ UNCHANGED <<variant, app, itemVars, urls, images, isProcessing, selectedIndex, flights, saved,
                 created, launched>>

\* the callback of the tuning timer: processSingle(item, tuningParams) with
\* the item and the params the effect closed over
tuningTimerFires ==
  /\ timer # <<>>
  /\ launched < MaxLaunched
  /\ launched' = launched + 1
  /\ flights' = flights \cup {Flight(timer, timer.params, "tuning")}
  /\ timer' = <<>>
  /\ UNCHANGED <<variant, app, itemVars, urls, images, isProcessing, selectedIndex, tuningParams,
                 saved, created>>

\* pixel n (from 1) of a buffer, as <<r, g, b, a>>
PixelOf(data, n) == <<data[4 * n - 3], data[4 * n - 2], data[4 * n - 1], data[4 * n]>>

\* what processImageLocally of the build the page imports resolves with for
\* each file and params: the bytes put on the canvas
ResultUrls ==
  {<<f, params,
     LET img == FileOf(f).raster
     IN  PixelOf(Written(img, ColorizationLoop(variant, img, img.width * img.height,
                                               params)), 1)>> :
     f \in {g \in PageFiles : FileOf(g).decodable}, params \in PageTunings}

\* the result of a call on file f with params
ResultUrl(f, params) == (CHOOSE t \in urls : t[1] = f /\ t[2] = params)[3]

\* processSingle after its await, then its caller after await processSingle:
\* the item of the call is updated if it is still in the list, the queue
\* clears isProcessing, the tuning callback saves the params it ran with under
\* the key of the file (not in the first build of App.tsx); then the effect on
\* the new list runs
Settle(f, Update(_)) ==
  /\ processNextPendingEffect(MapItem(images, f.id, Update),
                              IF f.by = "queue" THEN FALSE ELSE isProcessing,
                              flights \ {f})
  /\ IF f.by = "queue" \/ app = "App1"
     THEN UNCHANGED saved
     ELSE saved' = [g \in DOMAIN saved \cup {f.file} |->
                      IF g = f.file THEN f.params ELSE saved[g]]

\* a call resolves: its item is completed, with the result
processSingleResolves ==
  /\ \E f \in flights :
       /\ FileOf(f.file).decodable
       /\ Settle(f, LAMBDA item : Completed(item, ResultUrl(f.file, f.params), f.call))
  /\ UNCHANGED <<variant, app, itemVars, urls, selectedIndex, tuningParams, timer, created>>

\* a call rejects (the FileReader fails, there is no 2d context, or the error
\* event where the build has an onerror): its item is in error, with the message
processSingleRejects ==
  /\ \E f \in flights :
       /\ \/ ~FileOf(f.file).readable
          \/ FileOf(f.file).decodable
          \/ HasOnError(variant)
       /\ Settle(f, LAMBDA item : [item EXCEPT !.status = "error",
                                               !.error = CaughtMessage(
                                                 IF ~FileOf(f.file).readable
                                                 THEN ReaderMessage
                                                 ELSE IF FileOf(f.file).decodable
                                                 THEN ContextMessage(variant)
                                                 ELSE LoadMessage(variant)),
                                               !.call = f.call])
  /\ UNCHANGED <<variant, app, itemVars, urls, selectedIndex, tuningParams, timer, created>>

\* the page of App.tsx with the colorizer it imports
PageSpecInit ==
  /\ app = "App2"
  /\ variant = Imported(app)
  /\ file = [decodable |-> TRUE, raster |-> FileOf("photo").raster]
  /\ ItemInit
  /\ PageInit
  /\ urls = ResultUrls

PageNext ==
  \/ handleFiles
  \/ capturePhoto
  \/ onRemove
  \/ clearAll
  \/ onSelectImage
  \/ closeModal
  \/ setTuningParams
  \/ tuningTimerFires
  \/ processSingleResolves
  \/ processSingleRejects

PageSpec == PageSpecInit /\ [][PageNext]_vars

\* the page in each build of the App component, with the colorizer it imports
AppsInit ==
  /\ app \in Apps
  /\ variant = Imported(app)
  /\ file = [decodable |-> TRUE, raster |-> FileOf("photo").raster]
  /\ ItemInit
  /\ PageInit
  /\ urls = ResultUrls

AppsSpec == AppsInit /\ [][PageNext]_vars

\* the page with its callbacks scheduled: a FileReader and an <img> that have
\* an event to deliver do deliver it, so a call that can settle does settle
FairPageSpec ==
  /\ PageSpecInit
  /\ [][PageNext]_vars
  /\ WF_vars(processSingleResolves \/ processSingleRejects)

\* ------------------------------------------------------------------------
\* Properties
\* ------------------------------------------------------------------------
\* every byte of a raster, pixel by pixel, is the pixel px
IsUniform(img, px) ==
  /\ img.data # <<>>
  /\ \A k \in 1..Len(img.data) : img.data[k] = px[((k - 1) % 4) + 1]

IsNeutral(params) ==
  /\ params.intensity = 0
  /\ params.contrast = 100
  /\ params.saturation = 100
  /\ params.temp = 0
  /\ params.grading = "none"

\* C2: with intensity 0, contrast 1, saturation 1, temperature 0 and grading
\* none the output equals the input, byte for byte, for every image and engine.
C2_NeutralNoOp ==
  (promise = "resolved" /\ IsNeutral(config)) => canvas.data = file.raster.data

\* C3: with saturation 0 every output pixel has R = G = B, whatever the image
\* and the other settings.
C3_Desaturates ==
  (promise = "resolved" /\ config.saturation = 0) =>
    \A n \in 1..(canvas.width * canvas.height) :
      LET px == PixelOf(canvas.data, n) IN px[1] = px[2] /\ px[2] = px[3]

\* C3 witness: a coloured pixel, warmed and graded, came out an unsaturated grey.
C3_Witness ==
  /\ promise = "resolved"
  /\ config.saturation = 0
  /\ config.temp = 100
  /\ config.grading = "cinematic"
  /\ config.intensity = 100
  /\ PixelOf(file.raster.data, 1) = <<200, 100, 50, 128>>
  /\ PixelOf(canvas.data, 1)[1] \in 1..254
  /\ PixelOf(canvas.data, 1)[1] = PixelOf(canvas.data, 1)[3]

\* C4: every R, G and B byte written lies in 0..255, a value above the range
\* stored as 255 and one below it as 0: nothing wraps around.
C4_ChannelBounds ==
  \A n \in 1..Len(loop) : \A c \in 1..3 :
    LET byte == canvas.data[4 * (n - 1) + c]
    IN  /\ byte \in 0..255
        /\ loop[n].range[c] = "above" => byte = 255
        /\ loop[n].range[c] = "below" => byte = 0

\* C4 witness: on the all-white pixel one channel ran above 255 and another
\* below 0, and were stored as 255 and 0.
C4_Witness ==
  /\ promise = "resolved"
  /\ IsUniform(file.raster, Grey(255))
  /\ loop[1].range[1] = "above" /\ canvas.data[1] = 255
  /\ loop[1].range[3] = "below" /\ canvas.data[3] = 0

\* C5: the output has the width, height and buffer length of the input, every
\* alpha byte is the input's, and only R, G and B indices are accessed.
C5_Frame ==
  promise = "resolved" =>
    /\ canvas.width = file.raster.width
    /\ canvas.height = file.raster.height
    /\ Len(canvas.data) = Len(file.raster.data)
    /\ \A k \in 1..Len(canvas.data) : (k - 1) % 4 = 3 => canvas.data[k] = file.raster.data[k]
    /\ \A i \in indices : i % 4 # 3

\* C5 witness: a raster with translucent pixels was recoloured, alpha kept.
C5_Witness ==
  /\ promise = "resolved"
  /\ file.raster.width = 3 /\ file.raster.height = 3
  /\ PixelOf(file.raster.data, 5) = <<60, 120, 180, 64>>
  /\ PixelOf(canvas.data, 5)[4] = 64
  /\ PixelOf(canvas.data, 5) # PixelOf(file.raster.data, 5)

\* C6: every index of the pixel buffer and of the entropy / luminance maps that
\* the passes and the colorization loop read or write lies inside it.
C6_BorderSafety ==
  /\ \A i \in indices : InBuffer(file.raster, i)
  /\ \A k \in mapIndices : k >= 0 /\ k < file.raster.width * file.raster.height

\* C6 witness: on a 3 x 3 raster the structural pass read the four neighbours
\* of the centre pixel, and the call resolved.
C6_Witness ==
  /\ promise = "resolved"
  /\ variant = "P7B"
  /\ file.raster.width = 3 /\ file.raster.height = 3
  /\ {4, 12, 20, 28} \subseteq indices

\* the settings of the contrast test: only contrast is off neutral
PivotSetting(params) ==
  /\ params.saturation = 100
  /\ params.intensity = 0
  /\ params.temp = 0
  /\ params.grading = "none"
  /\ params.contrast >= 50 /\ params.contrast <= 200

\* C7 as stated: a uniform grey image of value 127 or 128 is unchanged in the
\* 8-bit output by every contrast in [0.5, 2].
C7_PivotAsStated ==
  (/\ promise = "resolved"
   /\ PivotSetting(config)
   /\ (IsUniform(file.raster, Grey(127)) \/ IsUniform(file.raster, Grey(128))))
  => canvas.data = file.raster.data

\* C7: a uniform grey image of value 128 is unchanged by every contrast in
\* [0.5, 2] in every build; one of value 127 is unchanged in the builds that
\* pivot on 0.5 for every contrast below 2, and at contrast 2 becomes 126.
C7_Pivot ==
  (promise = "resolved" /\ PivotSetting(config)) =>
    /\ IsUniform(file.raster, Grey(128)) => canvas.data = file.raster.data
    /\ (IsUniform(file.raster, Grey(127)) /\ variant # "GS1" /\ config.contrast < 200)
         => canvas.data = file.raster.data
    /\ (IsUniform(file.raster, Grey(127)) /\ variant # "GS1" /\ config.contrast = 200)
         => IsUniform(canvas, Grey(126))

\* C7 witness: grey 128 went through contrast 2 and came out 128.
C7_Witness ==
  /\ promise = "resolved"
  /\ PivotSetting(config)
  /\ config.contrast = 200
  /\ variant = "RS"
  /\ IsUniform(file.raster, Grey(128))
  /\ IsUniform(canvas, Grey(128))

\* the stages of an engine-aware build put in the documented order: blend,
\* temperature, grading, contrast, saturation
DocumentedOrder(img, x, y, params) ==
  LET i == (y * img.width + x) * 4
      yPos == DivS(FromInt(y), img.height)
      target ==
        IF variant = "RS" THEN
          TargetRS(params.engine, lumMapRS(img, x, y), yPos,
                   OrDefault(entropyMapRS(img, x, y), Num(5, 100)))
        ELSE
          LET lum == DivS(Lum601(FromInt(D(img, i)), FromInt(D(img, i + 1)),
                                 FromInt(D(img, i + 2))), 255)
              entropy == OrDefault(entropyMapP7A(img, x, y), FromInt(10))
          IN  SemanticP7A(EngineBiasP7A(params.engine, lum, entropy), lum, yPos, entropy)
      blended == Then(target, LAMBDA v : <<Blend(D(img, i), v[1], params.intensity),
                                           Blend(D(img, i + 1), v[2], params.intensity),
                                           Blend(D(img, i + 2), v[3], params.intensity)>>)
      warmed == Then(blended,
                     LAMBDA v : Temperature(v, params.temp, IF variant = "RS" THEN 800 ELSE 1000))
      graded == Then(warmed, LAMBDA v : IF variant = "RS" THEN GradingRS(v, params.grading)
                                        ELSE GradingP7A(v, params.grading))
      contrasted == Then(graded, LAMBDA v : Contrast(v, params.contrast))
      f == Then(contrasted,
                LAMBDA v : Saturation(v, params.saturation,
                                      IF variant = "RS" THEN colorWeightRS(params.engine) ELSE 100))
  IN  IF variant = "P7B" THEN PixelP7B(img, x, y, params)
      ELSE Then(f, LAMBDA v : <<MulS(v[1], 255), MulS(v[2], 255), MulS(v[3], 255)>>)

\* C8: in every engine-aware build the stages run in the order blend,
\* temperature, grading, contrast, saturation: the bytes written are those of
\* the build's own stages composed in that order.
C8_StageOrder ==
  (promise = "resolved" /\ variant \in EngineAware) =>
    \A n \in 1..(canvas.width * canvas.height) :
      LET x == (n - 1) % canvas.width
          y == (n - 1) \div canvas.width
          v == DocumentedOrder(file.raster, x, y, config)
      IN  <<Store(v[1]), Store(v[2]), Store(v[3])>> = loop[n].rgb

\* the guards of the five-target chain that hold at pixel (x, y)
GuardsAt(img, x, y) ==
  LET i == (y * img.width + x) * 4
      L == DivS(Lum601(FromInt(D(img, i)), FromInt(D(img, i + 1)), FromInt(D(img, i + 2))), 255)
      entropy == OrDefault(IF variant = "P7B" THEN entropyMapP7B(img, x, y)
                           ELSE entropyMapGS2(img, x, y), FromInt(10))
      xPos == DivS(FromInt(x), img.width)
      yPos == DivS(FromInt(y), img.height)
  IN  <<GuardShadow(L), GuardSky(L, yPos, entropy),
        GuardFoliage(L, yPos, entropy), GuardSubject(L, xPos)>>

ChainOrder == <<"shadow", "sky", "foliage", "subject">>

\* C9 as stated: at every pixel at most one of the four guards is true.
C9_GuardsExclusive ==
  (promise = "resolved" /\ variant \in {"P7B", "GS2"}) =>
    \A n \in 1..(canvas.width * canvas.height) :
      LET g == GuardsAt(file.raster, (n - 1) % canvas.width, (n - 1) \div canvas.width)
      IN  Cardinality({j \in 1..4 : g[j]}) <= 1

\* C9: the target of a pixel is chosen by the ordered chain: the branch taken
\* is the first of shadow, sky, foliage, subject whose guard is true, and the
\* default when none is; guards later in the chain may be true as well.
C9_FirstMatch ==
  (promise = "resolved" /\ variant \in {"P7B", "GS2"}) =>
    \A n \in 1..(canvas.width * canvas.height) :
      LET g == GuardsAt(file.raster, (n - 1) % canvas.width, (n - 1) \div canvas.width)
          hold == {j \in 1..4 : g[j]}
      IN  IF hold = {} THEN loop[n].branch = "default"
          ELSE loop[n].branch = ChainOrder[CHOOSE j \in hold : \A m \in hold : j <= m]

\* C9 witness: at the top-centre pixel of a flat mid-grey raster the sky and
\* the subject guard are both true, and the sky branch was taken.
C9_Witness ==
  /\ promise = "resolved"
  /\ variant = "P7B"
  /\ file.raster.width = 3 /\ file.raster.height = 3
  /\ IsUniform(file.raster, Grey(128))
  /\ GuardsAt(file.raster, 1, 0) = <<FALSE, TRUE, FALSE, TRUE>>
  /\ loop[2].branch = "sky"

\* C10: when the image fires its error event the promise is rejected, and once
\* processSingle has resumed the item is in error with a non-empty message.
C10_DecodeFailureSurfaced ==
  image = "broken" =>
    /\ promise = "rejected"
    /\ ~awaiting => (status = "error" /\ error # "")

\* the image loaded with a zero width or height
ZeroDimension == file.decodable /\ (file.raster.width = 0 \/ file.raster.height = 0)

\* C11: an image of zero width or height never gives a successful result, no
\* pixel of it is processed, and once img.onload has run the invocation has
\* ended in an error: the promise is rejected, and when processSingle has
\* resumed the item is in error.
C11_ZeroDimensionRejected ==
  ZeroDimension =>
    /\ promise # "resolved" /\ status # "completed" /\ loop = <<>>
    /\ image = "complete" => promise = "rejected"
    /\ (image = "complete" /\ ~awaiting) => status = "error"

\* C12: a call resolves only after the colorization loop has run over every
\* pixel and the buffer was put on the canvas; a call that rejects puts nothing
\* on a canvas and publishes no result; and the catch of processSingle changes
\* the status and the error of the item only: its stored resultUrl stays.
C12_NoPartialOutput ==
  [][/\ (promise # "resolved" /\ promise' = "resolved") =>
          /\ Len(loop') = file.raster.width * file.raster.height
          /\ canvas'.data = Written(file.raster, loop')
          /\ Len(canvas'.data) = 4 * Len(loop')
     /\ (promise # "rejected" /\ promise' = "rejected") =>
          UNCHANGED <<canvas, loop, history, resultUrl>>
     /\ (promise = "rejected" /\ awaiting /\ ~awaiting') =>
          /\ status' = "error" /\ error' # ""
          /\ UNCHANGED <<file, resultUrl>>]_vars

\* C12 witness: the first call completed and stored its result, the second one
\* was rejected, and the item, now in error, still has the result of the first.
C12_Witness ==
  /\ calls = 2
  /\ promise = "rejected"
  /\ status = "error"
  /\ ~awaiting
  /\ resultUrl # <<>>
  /\ resultUrl = canvas.data
  /\ resultUrl # file.raster.data

\* the items of the list with that status
WithStatus(st) == {k \in DOMAIN images : images[k].status = st}

\* the processSingle calls of processNextPending that have not returned
QueueFlights == {f \in flights : f.by = "queue"}

\* C13: whatever the order of adding files, capturing, removing, selecting,
\* tuning and completions, at most one item is processing, at most one run of
\* processNextPending is past its guard, and an item is processing only while
\* isProcessing is true.
C13_OneAtATime ==
  /\ Cardinality(WithStatus("processing")) <= 1
  /\ Cardinality(QueueFlights) <= 1
  /\ QueueFlights # {} => isProcessing
  /\ WithStatus("processing") # {} => isProcessing

\* C13 witness: of two items added together the first went through the queue
\* and is completed, and the second is now the one being processed.
C13_Witness ==
  /\ Len(images) = 2
  /\ images[1].status = "completed"
  /\ images[2].status = "processing"
  /\ isProcessing
  /\ \E f \in flights : f.by = "queue" /\ f.id = images[2].id

\* C14: no item has two processSingle calls outstanding at once.
C14_OneCallPerItem ==
  \A f \in flights : \A g \in flights : f.id = g.id => f = g

\* the status changes of an item the lifecycle allows
Lifecycle ==
  {<<"pending", "processing">>, <<"processing", "completed">>, <<"processing", "error">>}

\* C15: the status of an item changes only from pending to processing and from
\* processing to completed or error.
C15_Lifecycle ==
  [][\A i \in DOMAIN images : \A j \in DOMAIN images' :
       (images[i].id = images'[j].id /\ images[i].status # images'[j].status)
         => <<images[i].status, images'[j].status>> \in Lifecycle]_vars

\* C16: the result of an older processSingle call never replaces, on an item,
\* the result of a newer one computed from another configuration: a step that
\* completes an item with an older call than the one that completed it before
\* leaves its resultUrl as it was.
C16_LastConfigWins ==
  [][\A i \in DOMAIN images : \A j \in DOMAIN images' :
       (/\ images[i].id = images'[j].id
        /\ images'[j].call < images[i].call
        /\ images[i].status = "completed" /\ images'[j].status = "completed")
         => images'[j].resultUrl = images[i].resultUrl]_vars

\* the positions of the temperature slider that are compared
TempLadder == <<-100, 0, 15, 100>>

\* the next position above temp, or temp at the top
Warmer(temp) ==
  IF \E n \in DOMAIN TempLadder : TempLadder[n] > temp
  THEN TempLadder[CHOOSE n \in DOMAIN TempLadder :
                    /\ TempLadder[n] > temp
                    /\ \A m \in DOMAIN TempLadder : TempLadder[m] > temp => n <= m]
  ELSE temp

\* at every pixel, what the build stores for the same image and config at the
\* next warmer temperature, against what the call stored: Holds(now, warmer)
\* on the <<R, G, B>> bytes
AgainstWarmer(Holds(_, _)) ==
  LET warmer == [config EXCEPT !.temp = Warmer(config.temp)]
  IN  \A n \in 1..Len(loop) :
        Then(Iteration(variant, file.raster, n - 1, warmer),
             LAMBDA it : Holds(loop[n].rgb, it.rgb))

PortraitDone ==
  /\ promise = "resolved"
  /\ file.raster = Portrait
  /\ config = Project(variant, DEFAULT_PARAMS)

\* the output pixel n is warm: R > B
Warm(n) == PixelOf(canvas.data, n)[1] > PixelOf(canvas.data, n)[3]

\* the output pixel n lies in the lower half of the image
LowerHalf(n) == 2 * ((n - 1) \div canvas.width) >= canvas.height

\* C18 as stated: on the uniform (128,128,128,255) portrait with the default
\* settings, at least one output pixel differs from (128,128,128,255), and
\* every output pixel has R > B.
C18_GreyPortraitAsStated ==
  PortraitDone =>
    /\ \E n \in 1..Len(loop) : PixelOf(canvas.data, n) # Grey(128)
    /\ \A n \in 1..Len(loop) : Warm(n)

\* C18: on the uniform (128,128,128,255) portrait with the default settings, at
\* least one output pixel differs from (128,128,128,255); the build of
\* restorationService.ts makes every pixel warm (R > B); the builds that
\* classify by position make every pixel of the lower half warm, and paint the
\* top row as sky, with B > R.
C18_GreyPortrait ==
  PortraitDone =>
    /\ \E n \in 1..Len(loop) : PixelOf(canvas.data, n) # Grey(128)
    /\ \A n \in 1..Len(loop) : (variant = "RS" \/ LowerHalf(n)) => Warm(n)
    /\ variant # "RS" =>
         \A n \in 1..canvas.width : PixelOf(canvas.data, n)[3] > PixelOf(canvas.data, n)[1]

\* C18 witness: the build the page imports has completed the portrait with the
\* default settings; all its pixels were written, the first one redder than
\* the input and less blue.
C18_Witness ==
  /\ PortraitDone
  /\ variant = "RS"
  /\ status = "completed"
  /\ Len(loop) = PortraitSide * PortraitSide
  /\ resultUrl = canvas.data
  /\ PixelOf(resultUrl, 1)[1] > 128
  /\ PixelOf(resultUrl, 1)[3] < 128

\* the call on the all-black image has resolved
BlackDone == promise = "resolved" /\ file.raster = BlackImage

\* the temperature is 0 and the grading adds nothing
NoOffset == config.temp = 0 /\ config.grading \in {"none", "cinematic", "vibrant"}

\* every output pixel is px
OutputAll(px) == \A n \in 1..Len(loop) : PixelOf(canvas.data, n) = px

\* C19 as stated: on the all-black image, with temperature 0 and a grading that
\* adds nothing, every output pixel is (0,0,0,255) at every contrast,
\* saturation, intensity and engine; and no channel is below 0 at any settings.
C19_PureBlackAsStated ==
  BlackDone =>
    /\ NoOffset => OutputAll(Grey(0))
    /\ \A k \in DOMAIN canvas.data : canvas.data[k] >= 0

\* C19: on the all-black image, with temperature 0 and a grading that adds
\* nothing, every output pixel is (0,0,0,255) when contrast >= 1; at contrast
\* 0.5 the pivot at 0.5 lifts black to the grey 255 * 0.5 * (1 - 0.5) = 63.75,
\* stored as 64, whatever the saturation, intensity and engine; and no channel
\* is below 0 at any settings.
C19_PureBlack ==
  BlackDone =>
    /\ (NoOffset /\ config.contrast >= 100) => OutputAll(Grey(0))
    /\ (NoOffset /\ config.contrast = 50) => OutputAll(Grey(64))
    /\ \A k \in DOMAIN canvas.data : canvas.data[k] >= 0

\* C19 witness: the black image has completed at temperature 0, grading none
\* and contrast 2 and is still black throughout, all its pixels written.
C19_Witness ==
  /\ BlackDone
  /\ NoOffset
  /\ config.contrast = 200
  /\ status = "completed"
  /\ Len(loop) = BlackSide * BlackSide
  /\ resultUrl = canvas.data
  /\ OutputAll(Grey(0))

\* a call on the uniform mid-grey image with grading sepia has resolved
SepiaDone ==
  /\ promise = "resolved"
  /\ file.raster = Portrait
  /\ config.grading = "sepia"

\* the first pixel of the input in normalized space
InputF ==
  <<DivS(FromInt(D(file.raster, 0)), 255), DivS(FromInt(D(file.raster, 1)), 255),
    DivS(FromInt(D(file.raster, 2)), 255)>>

\* what the grading step of the build makes of f with grading sepia
SepiaStep(f) ==
  IF variant = "RS" THEN GradingRS(f, "sepia")
  ELSE IF variant = "P7A" THEN GradingP7A(f, "sepia")
  ELSE IF variant = "P7B" THEN GradingP7B(f, "sepia")
  ELSE GradingGS2(f, "sepia")

\* R = grey + dR, G = grey + dG, B = grey, in hundredths, grey the mean of f
SepiaTarget(f, dR, dG) ==
  LET grey == DivS(Add(Add(f[1], f[2]), f[3]), 3)
  IN  <<Add(grey, Num(dR, 100)), Add(grey, Num(dG, 100)), grey>>

\* the output pixel n has R > G > B
Ordered(n) ==
  /\ PixelOf(canvas.data, n)[1] > PixelOf(canvas.data, n)[2]
  /\ PixelOf(canvas.data, n)[2] > PixelOf(canvas.data, n)[3]

entropyMap(img, x, y) ==
  IF variant = "RS" THEN entropyMapRS(img, x, y)
  ELSE IF variant = "P7A" THEN entropyMapP7A(img, x, y)
  ELSE IF variant = "P7B" THEN entropyMapP7B(img, x, y)
  ELSE IF variant = "GS2" THEN entropyMapGS2(img, x, y)
  ELSE Zero

\* the luminance 0.299 R + 0.587 G + 0.114 B of pixel (x, y), in the units of
\* the build's pass: bytes, or normalized in restorationService.ts
LumAt(img, x, y) ==
  LET idx == (y * img.width + x) * 4
      lum == Lum601(FromInt(D(img, idx)), FromInt(D(img, idx + 1)), FromInt(D(img, idx + 2)))
  IN  IF variant = "RS" THEN DivS(lum, 255) ELSE lum

\* the absolute luminance difference between (x, y) and its neighbours: the
\* average of the neighbours the build's pass looks at, or right and below
LumDifference(img, x, y) ==
  LET here == LumAt(img, x, y)
  IN  IF variant = "RS"
      THEN Add(MathAbs(Sub(here, LumAt(img, x + 1, y))), MathAbs(Sub(here, LumAt(img, x, y + 1))))
      ELSE IF variant = "P7A"
      THEN MathAbs(Sub(here, DivS(Add(LumAt(img, x, y - 1), LumAt(img, x, y + 1)), 2)))
      ELSE MathAbs(Sub(here, DivS(Add(Add(LumAt(img, x, y - 1), LumAt(img, x, y + 1)),
                                      Add(LumAt(img, x - 1, y), LumAt(img, x + 1, y))), 4)))

\* C21: for every interior pixel whose entropy is computed, the entropy is the
\* absolute difference between the luminance of the pixel and the luminance of
\* its immediate neighbours, for every input, non-grey pixels included.
C21_EntropyDefinition ==
  promise = "resolved" =>
    \A p \in Visited(variant, file.raster) :
      entropyMap(file.raster, p[1], p[2]) = LumDifference(file.raster, p[1], p[2])

\* the row of pixel n of the input
RowOf(n) == (n - 1) \div file.raster.width

\* L of pixel n of the input: (0.299 r + 0.587 g + 0.114 b) / 255
LOf(n) == DivS(LumAt(file.raster, (n - 1) % file.raster.width, RowOf(n)), 255)

\* the target of pixel n of the input in the sky branch
SkyTarget(n) ==
  TargetP7B("sky", LOf(n), RowOf(n), file.raster.height, WeightsP7B(config.engine))

\* pixels n and m both took the sky branch, with the same L, m in a lower row
SkyPair(n, m) ==
  /\ loop[n].branch = "sky" /\ loop[m].branch = "sky"
  /\ LOf(n) = LOf(m)
  /\ RowOf(n) < RowOf(m)

\* a call of a build with the five-target chain has resolved
ChainDone == promise = "resolved" /\ variant \in {"P7B", "GS2"}

\* C22 as stated: in the sky branch, for fixed L, the blue target and the blue
\* excess over red and over green are non-decreasing as yPos grows.
C22_SkyTargetAsStated ==
  ChainDone =>
    \A n \in 1..Len(loop) : \A m \in 1..Len(loop) :
      SkyPair(n, m) =>
        Then(SkyTarget(n), LAMBDA a : Then(SkyTarget(m), LAMBDA b :
          /\ ~Lt(b[3], a[3])
          /\ ~Lt(Sub(b[3], b[1]), Sub(a[3], a[1]))
          /\ ~Lt(Sub(b[3], b[2]), Sub(a[3], a[2]))))

\* C22: in the sky branch the target is blue-biased (blue above red and
\* green); for fixed L the blue target does not depend on yPos, while the red
\* and the green target grow with yPos, so the blue excess over red and over
\* green shrinks toward the horizon.
C22_SkyTarget ==
  ChainDone =>
    /\ \A n \in 1..Len(loop) :
         loop[n].branch = "sky" =>
           Then(SkyTarget(n), LAMBDA a : Gt(a[3], a[1]) /\ Gt(a[3], a[2]))
    /\ \A n \in 1..Len(loop) : \A m \in 1..Len(loop) :
         SkyPair(n, m) =>
           Then(SkyTarget(n), LAMBDA a : Then(SkyTarget(m), LAMBDA b :
             /\ b[3] = a[3]
             /\ Gt(b[1], a[1])
             /\ Gt(b[2], a[2])))

\* C22 witness: the second build of part_007 has resolved on a uniform mid-grey
\* image whose first two rows took the sky branch; the pixel below the first
\* one has the same blue target and a larger red one.
C22_Witness ==
  /\ ChainDone
  /\ variant = "P7B"
  /\ IsUniform(file.raster, Grey(128))
  /\ Len(loop) > file.raster.width
  /\ SkyPair(1, 1 + file.raster.width)
  /\ SkyTarget(1)[3] = SkyTarget(1 + file.raster.width)[3]
  /\ Gt(SkyTarget(1 + file.raster.width)[1], SkyTarget(1)[1])

\* the branch the if / else-if chain of restorationService.ts takes for an
\* engine: each engine has a chain of its own, local has a single mapping
BranchRS(engine, lum, yPos, entropy) ==
  IF engine = "paddlehub" THEN
    IF Lt(yPos, Num(45, 100)) /\ Gt(lum, Num(35, 100)) THEN "sky"
    ELSE IF Gt(entropy, Num(15, 100)) /\ Gt(yPos, Num(4, 10)) THEN "vegetation"
    ELSE IF Gt(lum, Num(25, 100)) /\ Lt(lum, Num(85, 100)) THEN "subject"
    ELSE "default"
  ELSE IF engine = "opencv" THEN
    IF Gt(lum, Num(4, 10)) /\ Lt(lum, Num(9, 10)) THEN "subject"
    ELSE IF Lt(yPos, Num(35, 100)) THEN "sky"
    ELSE "default"
  ELSE "default"

\* the branch of the semantic chain of the first build of part_007
BranchP7A(lum, yPos, entropy) ==
  IF Lt(yPos, Num(4, 10)) /\ Gt(lum, Num(5, 10)) THEN "sky"
  ELSE IF Gt(yPos, Num(6, 10)) /\ Gt(entropy, FromInt(15)) THEN "foliage"
  ELSE IF Gt(lum, Num(3, 10)) /\ Lt(lum, Num(8, 10)) THEN "subject"
  ELSE "default"

\* the semantic branch the build selects at pixel n of the input when the
\* engine is engine
SemanticBranch(engine, n) ==
  LET img == file.raster
      x == (n - 1) % img.width
      y == RowOf(n)
      yPos == DivS(FromInt(y), img.height)
  IN  IF variant = "RS"
      THEN BranchRS(engine, lumMapRS(img, x, y), yPos,
                    OrDefault(entropyMapRS(img, x, y), Num(5, 100)))
      ELSE IF variant = "P7A"
      THEN BranchP7A(LOf(n), yPos, OrDefault(entropyMapP7A(img, x, y), FromInt(10)))
      ELSE BranchAt(variant, img, x, y)

\* the factor of the saturation step when the engine is engine, in
\* ten-thousandths: saturation * colorWeight in restorationService.ts
EffectiveSaturation(engine) ==
  IF variant = "RS" THEN config.saturation * colorWeightRS(engine)
  ELSE config.saturation * 100

\* a call of an engine-aware build has resolved
EngineDone == promise = "resolved" /\ variant \in EngineAware

\* at every pixel the branch and the saturation factor are those of every engine
EngineIsBias ==
  \A e \in EngineType :
    /\ EffectiveSaturation(e) = EffectiveSaturation(config.engine)
    /\ \A n \in 1..Len(loop) : SemanticBranch(e, n) = SemanticBranch(config.engine, n)

Unclamped(n, params) ==
  Pixel(variant, file.raster, (n - 1) % file.raster.width, RowOf(n), params)

\* C24: the saturation step leaves the BT.601 luminance unchanged before
\* clamping: at every pixel the luminance of the values stored is the one the
\* same pixel has with saturation 0, where the step returns the luminance of
\* the post-contrast triple in all three channels.
C24_LuminancePreserved ==
  promise = "resolved" =>
    \A n \in 1..Len(loop) :
      Then(Unclamped(n, config), LAMBDA v :
        Then(Unclamped(n, [config EXCEPT !.saturation = 0]), LAMBDA grey :
          /\ grey[1] = grey[2] /\ grey[2] = grey[3]
          /\ Lum601(v[1], v[2], v[3]) = grey[1]))

\* C24 witness: a call with saturation 3 has resolved on a pixel that comes
\* out coloured, and some channel left the byte range before clamping.
C24_Witness ==
  /\ promise = "resolved"
  /\ config.saturation = 300
  /\ Len(loop) >= 1
  /\ loop[1].rgb[1] # loop[1].rgb[3]
  /\ \E c \in 1..3 : loop[1].range[c] # "within"

\* pixel n of the input as an image of its own: no position, no neighbours
Alone(n) ==
  LET px == PixelOf(file.raster.data, n) IN Raster(1, 1, px, px)

\* a colour with the luminance of mid-grey 128:
\* 0.299 * 117 + 0.587 * 127 + 0.114 * 162 = 128
SameLuminance == <<117, 127, 162, 255>>

\* the input with pixel n given the colour px
Recoloured(n, px) ==
  [file.raster EXCEPT !.data =
     [k \in 1..Len(file.raster.data) |->
        IF (k - 1) \div 4 = n - 1 THEN px[((k - 1) % 4) + 1] ELSE file.raster.data[k]]]

\* the engines whose later stages are those of the call: every one, except
\* that restorationService.ts scales a non-zero saturation by the engine
SameStages ==
  IF variant = "RS" /\ config.saturation # 0 THEN {config.engine} ELSE EngineType

\* C25: with intensity 0 what the later stages make of a pixel is what they
\* make of the original pixel alone, whatever the engine, the position and
\* the entropy; with intensity 1 it is what they make of the target, which
\* does not change when the pixel is given another colour of the same
\* luminance.
C25_BlendEndpoints ==
  promise = "resolved" =>
    \A n \in 1..Len(loop) :
      /\ config.intensity = 0 =>
           \A e \in SameStages :
             Unclamped(n, config) = Pixel(variant, Alone(n), 0, 0, [config EXCEPT !.engine = e])
      /\ (config.intensity = 100 /\ PixelOf(file.raster.data, n) = Grey(128)) =>
           Unclamped(n, config)
             = Pixel(variant, Recoloured(n, SameLuminance),
                     (n - 1) % file.raster.width, RowOf(n), config)

\* C25 witness: the build the page imports has resolved with Show Original
\* (intensity 0) on an image of several pixels, and with that setting the
\* output still differs from the input.
C25_Witness ==
  /\ promise = "resolved"
  /\ variant = "RS"
  /\ config = ShowOriginal
  /\ Len(loop) > 1
  /\ canvas.data # file.raster.data

\* the item id is in the list with one of the statuses
InList(id, statuses) ==
  \E k \in DOMAIN images : images[k].id = id /\ images[k].status \in statuses

\* C26: with the callbacks scheduled, every item in the list that is pending
\* or processing is eventually completed, in error or removed, and
\* isProcessing eventually returns to false (as long as the page may still
\* call processSingle).
C26_QueueLiveness ==
  /\ \A id \in 1..MaxItems :
       InList(id, {"pending", "processing"})
         ~> (\/ ~InList(id, {"pending", "processing"})
             \/ launched = MaxLaunched)
  /\ isProcessing ~> (~isProcessing \/ launched = MaxLaunched)


\* C27: status/field consistency: in every reachable state of the page, an
\* item with status 'completed' has a resultUrl and no error message, and an
\* item carries an error message if and only if its status is 'error'
C27_StatusFields ==
  \A k \in DOMAIN images :
    /\ images[k].status = "completed"
         => images[k].resultUrl # <<>> /\ images[k].error = ""
    /\ images[k].error # "" <=> images[k].status = "error"


\* the build has a sepia branch in its grading step
HasSepiaStep == variant \in {"RS", "P7B", "GS2"}

\* at every pixel, the bytes the build stores for the same image and config
\* at temperature temp are the bytes the call stored
SameAtTemperature(temp) ==
  \A n \in 1..Len(loop) :
    Then(Iteration(variant, file.raster, n - 1, [config EXCEPT !.temp = temp]),
         LAMBDA it : it.rgb = loop[n].rgb)

\* C28 as stated: a call that resolved with grading sepia stored at every
\* pixel the bytes it stores at any other temperature, in every build.
C28_SepiaAsStated ==
  (promise = "resolved" /\ config.grading = "sepia") =>
    \A n \in DOMAIN TempLadder : SameAtTemperature(TempLadder[n])

\* C28: with grading sepia the output is independent of temperature in the
\* builds whose grading step has a sepia branch (the first build of part_007
\* has none, and there the temperature shows): a call that resolved with
\* grading sepia stored at every pixel the bytes it stores at any other
\* temperature, the other sliders, the engine and the image being the same.
C28_SepiaMasksTemperature ==
  (promise = "resolved" /\ config.grading = "sepia" /\ HasSepiaStep) =>
    \A n \in DOMAIN TempLadder : SameAtTemperature(TempLadder[n])

\* C28 witness: the coloured image with the translucent centre has resolved
\* in restorationService.ts at temperature 20 with the sepia profile of the
\* panel; at temperature -100 and at 100 every pixel is stored the same,
\* while with grading none the two ends differ.
C28_Witness ==
  /\ promise = "resolved"
  /\ variant = "RS"
  /\ config = LUCKY_PROFILES[4]
  /\ file.raster.width = 3
  /\ ~IsUniform(file.raster, PixelOf(file.raster.data, 1))
  /\ Len(loop) = 9
  /\ SameAtTemperature(-100) /\ SameAtTemperature(100)
  /\ Iteration(variant, file.raster, 4, [config EXCEPT !.temp = -100, !.grading = "none"]).rgb
       # Iteration(variant, file.raster, 4, [config EXCEPT !.temp = 100, !.grading = "none"]).rgb

\* a loop that fills entropyMap as it goes: iteration k takes everything from
\* the buffer being written
SourceCurrent(img, buf, k) == [img EXCEPT !.data = buf]

\* what iteration k of the colorization loop works from when the buffer holds
\* buf: data[i], data[i+1], data[i+2] of its own pixel as they are in the buffer
\* now, and entropyMap / lumMap as the passes before the loop filled them from
\* the buffer getImageData returned
Source(img, buf, k) ==
  [img EXCEPT !.data = [j \in DOMAIN img.data |->
                          IF (j - 1) \div 4 = k THEN buf[j] ELSE img.data[j]]]

\* the buffer after iteration k stored its three bytes in it
StoreAt(buf, k, rgb) ==
  [j \in DOMAIN buf |->
     IF (j - 1) \div 4 = k /\ (j - 1) % 4 < 3 THEN rgb[((j - 1) % 4) + 1] ELSE buf[j]]

\* the buffer, modified in place, after the iterations of the colorization
\* loop ran on it in that order
RECURSIVE InPlace(_, _)
InPlace(buf, order) ==
  IF order = <<>> THEN buf
  ELSE Then(Iteration(variant, Source(file.raster, buf, Head(order)), Head(order), config),
            LAMBDA it : Then(StoreAt(buf, Head(order), it.rgb),
                             LAMBDA next : InPlace(next, Tail(order))))

\* the orders the pixels 0 .. n-1 are visited in: the loop's own (row by row),
\* the reverse, and every other pixel first
Orders(n) ==
  {[k \in 1..n |-> k - 1],
   [k \in 1..n |-> n - k],
   [k \in 1..n |-> IF 2 * k - 2 < n THEN 2 * k - 2 ELSE 2 * (k - (n + 1) \div 2) - 1]}

\* C29: the pixel buffer is modified in place, yet every output pixel is a
\* function of the input alone: running the iterations of the colorization
\* loop on the buffer in place, in the loop's order, in reverse or every other
\* pixel first, leaves the buffer the call put on the canvas.
C29_NoReadAfterWrite ==
  promise = "resolved" =>
    \A order \in Orders(Len(loop)) : InPlace(file.raster.data, order) = canvas.data

\* C29 witness: the second build of part_007 has resolved on a 3x3 image
\* whose centre the entropy pass visited; the loop changed the red byte of the
\* pixel above the centre, which that pass had read, and the pixels taken in
\* reverse order give the same buffer.
C29_Witness ==
  /\ promise = "resolved"
  /\ variant = "P7B"
  /\ file.raster.width = 3 /\ file.raster.height = 3
  /\ <<1, 1>> \in Visited(variant, file.raster)
  /\ canvas.data[5] # file.raster.data[5]
  /\ 4 \in PassReads(variant, file.raster)
  /\ InPlace(file.raster.data, [k \in 1..9 |-> 9 - k]) = canvas.data

\* the default of the build: entropyMap[...] || 10, || 0.05 in restorationService.ts
EntropyDefault == IF variant = "RS" THEN Num(5, 100) ELSE FromInt(10)

\* const entropy = entropyMap[y * width + x] || default, at pixel n of the input
EntropyUsed(n) ==
  OrDefault(entropyMap(file.raster, (n - 1) % file.raster.width, RowOf(n)), EntropyDefault)

\* every pixel of the image has the same R = G = B
UniformGrey(img) ==
  \A k \in 1..(img.width * img.height) :
    /\ PixelOf(img.data, k)[1] = PixelOf(img.data, 1)[1]
    /\ PixelOf(img.data, k)[2] = PixelOf(img.data, 1)[1]
    /\ PixelOf(img.data, k)[3] = PixelOf(img.data, 1)[1]

\* C30: the entropy used in the branch decision is never 0: a pixel the pass
\* before the loop did not visit (border, or skipped by the step) and a visited
\* pixel whose computed difference is 0 use the build's default, 10 or 0.05;
\* so on an image at most 2 wide or 2 high, and on a uniform grey image, no
\* pixel takes the foliage / vegetation branch, whatever the engine.
C30_EntropyDefault ==
  (promise = "resolved" /\ variant # "GS1") =>
    \A n \in 1..Len(loop) :
      /\ Gt(EntropyUsed(n), Zero)
      /\ (\/ <<(n - 1) % file.raster.width, RowOf(n)>> \notin Visited(variant, file.raster)
          \/ entropyMap(file.raster, (n - 1) % file.raster.width, RowOf(n)) = Zero)
           => EntropyUsed(n) = EntropyDefault
      /\ (\/ file.raster.width <= 2
          \/ file.raster.height <= 2
          \/ UniformGrey(file.raster))
           => \A e \in EngineType : SemanticBranch(e, n) \notin {"foliage", "vegetation"}

\* C30 witness: the second build of part_007 has resolved on the uniform
\* mid-grey 3x3 image. The pass visited the centre and stored 0 there, the
\* loop used 10; the pixel below the centre, on the border, used 10 as well
\* and took the subject branch, where an entropy of 26 selects foliage.
C30_Witness ==
  /\ promise = "resolved"
  /\ variant = "P7B"
  /\ file.raster.width = 3 /\ file.raster.height = 3
  /\ UniformGrey(file.raster)
  /\ <<1, 1>> \in Visited(variant, file.raster)
  /\ entropyMap(file.raster, 1, 1) = Zero
  /\ EntropyUsed(5) = FromInt(10)
  /\ EntropyUsed(8) = FromInt(10)
  /\ loop[8].branch = "subject"
  /\ BranchP7B(LOf(8), DivS(FromInt(1), 3), DivS(FromInt(2), 3), FromInt(26)) = "foliage"

====
